---- MODULE Spec2Model ----
(***************************************************************************)
(* A model of the NOTAM decoder: the structural precheck, the PEG grammar  *)
(* of src/_parser.py with its tree-walking visitor, the error wrapping and *)
(* the best-effort geometry step of Notam.from_str, Notam.decoded and      *)
(* Notam.decode_abbr (src/notam.py).                                       *)
(*                                                                         *)
(* Texts are strings; offsets are 0-based as in Python, so the character   *)
(* at offset i of t is SubSeq(t, i+1, i+1).                                *)
(***************************************************************************)
EXTENDS Integers, Sequences, FiniteSets, TLC

\* ------------------------------------------------------------------ text

Upper == {"A","B","C","D","E","F","G","H","I","J","K","L","M",
          "N","O","P","Q","R","S","T","U","V","W","X","Y","Z"}
Digit == {"0","1","2","3","4","5","6","7","8","9"}
DigitSeq == <<"0","1","2","3","4","5","6","7","8","9">>
\* Python's str.strip() / regex \s, restricted to the characters of the model
Whitespace == {" ", "\n"}
\* regex \w, restricted to the characters of the model
WordChar == Upper \cup Digit

Max(a, b) == IF a >= b THEN a ELSE b
Min(a, b) == IF a <= b THEN a ELSE b

\* t[i] of Python ("" when i is out of range)
At(t, i) == IF i >= 0 /\ i < Len(t) THEN SubSeq(t, i + 1, i + 1) ELSE ""
\* t[a:b] of Python for 0 <= a
Slice(t, a, b) ==
    LET bb == Min(b, Len(t)) IN IF a >= bb THEN "" ELSE SubSeq(t, a + 1, bb)
StartsAt(t, p, lit) == p + Len(lit) <= Len(t) /\ Slice(t, p, p + Len(lit)) = lit

DigitVal(c) == (CHOOSE i \in 1..10 : DigitSeq[i] = c) - 1
\* int("dd")
Int2(t, p) == 10 * DigitVal(At(t, p)) + DigitVal(At(t, p + 1))

RECURSIVE SpanWhile(_, _, _, _)
\* the number of consecutive characters of t from offset p that lie in cls, at most mx
SpanWhile(t, p, cls, mx) ==
    IF mx = 0 \/ At(t, p) \notin cls THEN 0
    ELSE 1 + SpanWhile(t, p + 1, cls, mx - 1)

MinOf(S) == CHOOSE x \in S : \A y \in S : x <= y
MaxOf(S) == CHOOSE x \in S : \A y \in S : x >= y

\* t.count(c)
CountChar(t, c) == Cardinality({i \in 0..(Len(t) - 1) : At(t, i) = c})

\* t.rfind("\n"): the offset of the last newline, -1 when there is none
RFindNl(t) ==
    LET at == {i \in 0..(Len(t) - 1) : At(t, i) = "\n"}
    IN IF at = {} THEN -1 ELSE MaxOf(at)

\* t.find(c, from), with len(t) in the place of -1
Find(t, c, from) ==
    LET at == {i \in from..(Len(t) - 1) : At(t, i) = c}
    IN IF at = {} THEN Len(t) ELSE MinOf(at)

\* t.lstrip(), t.rstrip(), t.strip()
RECURSIVE LStrip(_)
LStrip(t) ==
    IF t # "" /\ At(t, 0) \in Whitespace THEN LStrip(Slice(t, 1, Len(t))) ELSE t
RECURSIVE RStrip(_)
RStrip(t) ==
    IF t # "" /\ At(t, Len(t) - 1) \in Whitespace
    THEN RStrip(Slice(t, 0, Len(t) - 1)) ELSE t
Strip(t) == LStrip(RStrip(t))

\* t.splitlines(): the lines of t, without a trailing empty line
RECURSIVE SplitLines(_, _)
SplitLines(t, a) ==
    IF a >= Len(t) THEN <<>>
    ELSE LET e == Find(t, "\n", a)
         IN <<Slice(t, a, e)>> \o SplitLines(t, e + 1)

\* t.split(sep) for a one-character separator, from offset a
RECURSIVE Split(_, _, _)
Split(t, sep, a) ==
    LET e == Find(t, sep, a)
    IN IF e >= Len(t) THEN <<Slice(t, a, Len(t))>>
       ELSE <<Slice(t, a, e)>> \o Split(t, sep, e + 1)

\* ------------------------------------------------- the PEG machinery

\* The expressions parsimonious.Grammar builds from the grammar text. An
\* expression written inline in a rule has the empty name.
Literal(nm, s) == [k |-> "lit", name |-> nm, s |-> s]
Regex(nm) == [k |-> "re", name |-> nm]
Sequence(nm, ms) == [k |-> "seq", name |-> nm, ms |-> ms]
OneOf(nm, ms) == [k |-> "alt", name |-> nm, ms |-> ms]
Quantifier(nm, m, lo, hi) == [k |-> "rep", name |-> nm, m |-> m, lo |-> lo, hi |-> hi]
Unbounded == 1000000
Optional(nm, m) == Quantifier(nm, m, 0, 1)
ZeroOrMore(nm, m) == Quantifier(nm, m, 0, Unbounded)

\* A node of the parse tree: Node(expr, text, start, end, children)
Node(nm, a, b, kids) == [expr_name |-> nm, start |-> a, end |-> b, children |-> kids]
NoNode == Node("", -1, -1, <<>>)

\* ParseError(text): pos = -1, expr = None
NoError == [pos |-> -1, set |-> FALSE]
\* Expression.match_core records the failure of an expression at p when it is
\* at least as far as the recorded one and the expression is named, or nothing
\* was recorded yet.
Record(er, p, nm) ==
    IF p >= er.pos /\ (nm # "" \/ ~er.set) THEN [pos |-> p, set |-> TRUE] ELSE er

\* .*?(?=(?:\)$)|(?:\s[A-G]\))) with DOTALL, where $ is the end of the text
\* or the position before a newline that ends the text
ClauseLabel == {"A","B","C","D","E","F","G"}
StopsAt(t, j) ==
    \/ /\ At(t, j) = ")"
       /\ \/ j + 1 = Len(t)
          \/ j + 2 = Len(t) /\ At(t, j + 1) = "\n"
    \/ /\ At(t, j) \in Whitespace
       /\ At(t, j + 1) \in ClauseLabel
       /\ At(t, j + 2) = ")"
\* the lookahead without its \s: any capital A-G followed by ')' stops the clause
till_next_clause_mut(t, p) ==
    LET stops == {j \in p..(Len(t) - 1) :
                    \/ StopsAt(t, j)
                    \/ At(t, j) \in ClauseLabel /\ At(t, j + 1) = ")"}
    IN IF stops = {} THEN -1 ELSE MinOf(stops)
\* the end of the lazy match from offset p: the first offset where the
\* lookahead holds, -1 when there is none
till_next_clause(t, p) ==
    LET stops == {j \in p..(Len(t) - 1) : StopsAt(t, j)}
    IN IF stops = {} THEN -1 ELSE MinOf(stops)

\* [0-9]{4}[NS][0-9]{5}[EW][0-9]{0,3}
AreaEnd(t, p) ==
    IF /\ SpanWhile(t, p, Digit, 4) = 4
       /\ At(t, p + 4) \in {"N","S"}
       /\ SpanWhile(t, p + 5, Digit, 5) = 5
       /\ At(t, p + 10) \in {"E","W"}
    THEN p + 11 + SpanWhile(t, p + 11, Digit, 3)
    ELSE -1

\* re.match(text, pos) of each regex of the grammar: the end of the match, -1 for none
ReEnd(nm, t, p) ==
    CASE nm = "notam_id" ->
           IF /\ At(t, p) \in Upper
              /\ SpanWhile(t, p + 1, Digit, 4) = 4
              /\ At(t, p + 5) = "/"
              /\ SpanWhile(t, p + 6, Digit, 2) = 2
           THEN (IF At(t, p + 8) \in Upper /\ SpanWhile(t, p + 9, Digit, 2) = 2
                 THEN p + 11 ELSE p + 8)
           ELSE -1
      [] nm = "icao_id" -> IF SpanWhile(t, p, Upper, 4) = 4 THEN p + 4 ELSE -1
      [] nm = "notam_code" ->
           IF At(t, p) = "Q" /\ SpanWhile(t, p + 1, Upper, 4) = 4 THEN p + 5 ELSE -1
      [] nm = "traffic_type" -> p + SpanWhile(t, p, {"I","V","K"}, Unbounded)
      [] nm = "purpose" -> p + SpanWhile(t, p, {"N","B","O","M","K"}, Unbounded)
      [] nm = "scope" ->
           LET k == SpanWhile(t, p, {"A","E","W","K"}, Unbounded)
           IN IF k >= 1 THEN p + k ELSE -1
      [] nm = "area_of_effect" -> AreaEnd(t, p)
      [] nm = "int2" -> IF SpanWhile(t, p, Digit, 2) = 2 THEN p + 2 ELSE -1
      [] nm = "int3" -> IF SpanWhile(t, p, Digit, 3) = 3 THEN p + 3 ELSE -1
      [] nm = "int3_blank" ->
           IF SpanWhile(t, p, Digit \cup {" "}, 3) = 3 THEN p + 3 ELSE -1
      [] nm = "till_next_clause" -> till_next_clause(t, p)

RECURSIVE MatchCore(_, _, _, _)
RECURSIVE MatchSequence(_, _, _, _, _, _)
RECURSIVE MatchOneOf(_, _, _, _, _)
RECURSIVE MatchQuantifier(_, _, _, _, _)

\* Sequence._uncached_match: every member in turn, each from the end of the last
MatchSequence(ms, i, t, p, er, kids) ==
    IF i > Len(ms) THEN [ok |-> TRUE, end |-> p, kids |-> kids, er |-> er]
    ELSE LET r == MatchCore(ms[i], t, p, er)
         IN IF r.ok
            THEN MatchSequence(ms, i + 1, t, r.node.end, r.er, Append(kids, r.node))
            ELSE [ok |-> FALSE, end |-> -1, kids |-> <<>>, er |-> r.er]

\* OneOf._uncached_match: the first member that matches
MatchOneOf(ms, i, t, p, er) ==
    IF i > Len(ms) THEN [ok |-> FALSE, end |-> -1, kids |-> <<>>, er |-> er]
    ELSE LET r == MatchCore(ms[i], t, p, er)
         IN IF r.ok
            THEN [ok |-> TRUE, end |-> r.node.end, kids |-> <<r.node>>, er |-> r.er]
            ELSE MatchOneOf(ms, i + 1, t, p, r.er)

\* Quantifier._uncached_match: members while they match, stopping at the end
\* of the text, at max, and after a match of length 0 once min is reached
MatchQuantifier(e, t, p, er, kids) ==
    IF p < Len(t) /\ Len(kids) < e.hi
    THEN LET r == MatchCore(e.m, t, p, er)
         IN IF ~r.ok
            THEN [ok |-> Len(kids) >= e.lo, end |-> p, kids |-> kids, er |-> r.er]
            ELSE IF Len(kids) + 1 >= e.lo /\ r.node.end = r.node.start
            THEN [ok |-> TRUE, end |-> p, kids |-> Append(kids, r.node), er |-> r.er]
            ELSE MatchQuantifier(e, t, r.node.end, r.er, Append(kids, r.node))
    ELSE [ok |-> Len(kids) >= e.lo, end |-> p, kids |-> kids, er |-> er]

\* Expression.match_core: the node of e at offset p of t, or the failure recorded
MatchCore(e, t, p, er) ==
    LET r == CASE e.k = "lit" ->
                    IF StartsAt(t, p, e.s)
                    THEN [ok |-> TRUE, end |-> p + Len(e.s), kids |-> <<>>, er |-> er]
                    ELSE [ok |-> FALSE, end |-> -1, kids |-> <<>>, er |-> er]
               [] e.k = "re" ->
                    LET m == ReEnd(e.name, t, p)
                    IN [ok |-> m >= 0, end |-> m, kids |-> <<>>, er |-> er]
               [] e.k = "seq" -> MatchSequence(e.ms, 1, t, p, er, <<>>)
               [] e.k = "alt" -> MatchOneOf(e.ms, 1, t, p, er)
               [] e.k = "rep" -> MatchQuantifier(e, t, p, er, <<>>)
    IN IF r.ok
       THEN [ok |-> TRUE, node |-> Node(e.name, p, r.end, r.kids), er |-> r.er]
       ELSE [ok |-> FALSE, node |-> NoNode, er |-> Record(r.er, p, e.name)]

\* Grammar.parse: match from offset 0; a match that leaves text over is an
\* IncompleteParseError at the end of the match
GrammarParse(e, t) ==
    LET r == MatchCore(e, t, 0, NoError)
    IN IF ~r.ok THEN [ok |-> FALSE, node |-> NoNode, pos |-> r.er.pos]
       ELSE IF r.node.end < Len(t)
       THEN [ok |-> FALSE, node |-> NoNode, pos |-> r.node.end]
       ELSE [ok |-> TRUE, node |-> r.node, pos |-> -1]

\* ------------------------------------------------------ the grammar

us == ZeroOrMore("_", OneOf("", <<Literal("", " "), Literal("", "\n")>>))
icao_id == Regex("icao_id")
int2 == Regex("int2")
int3 == Regex("int3")
int3_blank == Regex("int3_blank")
datetime == Sequence("datetime", <<int2, int2, int2, int2, int2>>)
TillNextClause == Regex("till_next_clause")

notam_id == Regex("notam_id")
notamn_header == Sequence("notamn_header", <<notam_id, us, Literal("", "NOTAMN")>>)
notamr_header ==
    Sequence("notamr_header", <<notam_id, us, Literal("", "NOTAMR"), us, notam_id>>)
notamc_header ==
    Sequence("notamc_header", <<notam_id, us, Literal("", "NOTAMC"), us, notam_id>>)
header == OneOf("header", <<notamn_header, notamr_header, notamc_header>>)

\* fir = icao_id, lower_limit = int3, upper_limit = int3_blank and
\* location_icao = icao_id are references: they resolve to the rule referred to
fir == icao_id
notam_code == Regex("notam_code")
traffic_type == Regex("traffic_type")
purpose == Regex("purpose")
scope == Regex("scope")
lower_limit == int3
upper_limit == int3_blank
area_of_effect == Regex("area_of_effect")
q_clause ==
    Sequence("q_clause",
        <<Literal("", "Q)"), Optional("", us), fir, Literal("", "/"), notam_code,
          Literal("", "/"), traffic_type, Literal("", "/"), purpose,
          Literal("", "/"), scope, Literal("", "/"), lower_limit,
          Literal("", "/"), upper_limit,
          Optional("", Sequence("", <<Literal("", "/"), area_of_effect>>))>>)

location_icao == icao_id
a_clause ==
    Sequence("a_clause",
        <<Literal("", "A)"), us, location_icao,
          ZeroOrMore("", Sequence("",
              <<OneOf("", <<Literal("", " "), Literal("", "/")>>), location_icao>>))>>)

b_clause == Sequence("b_clause", <<Literal("", "B)"), us, datetime>>)
estimated == Literal("estimated", "EST")
permanent == Literal("permanent", "PERM")
c_clause ==
    Sequence("c_clause",
        <<Literal("", "C)"), us,
          OneOf("", <<Sequence("", <<datetime, ZeroOrMore("", us),
                                     Optional("", estimated), ZeroOrMore("", us)>>),
                      permanent>>)>>)

d_clause == Sequence("d_clause", <<Literal("", "D)"), us, TillNextClause>>)
e_clause == Sequence("e_clause", <<Literal("", "E)"), us, TillNextClause>>)
f_clause == Sequence("f_clause", <<Literal("", "F)"), us, TillNextClause>>)
g_clause == Sequence("g_clause", <<Literal("", "G)"), us, TillNextClause>>)

\* root with F) and G) each optional on its own
root_mut ==
    Sequence("root",
        <<Literal("", "("), us, header, us, q_clause, us, a_clause, us, b_clause, us,
          Optional("", Sequence("", <<c_clause, us>>)),
          Optional("", Sequence("", <<d_clause, us>>)),
          e_clause,
          Optional("", Sequence("", <<us, f_clause>>)),
          Optional("", Sequence("", <<us, g_clause>>)),
          Literal("", ")")>>)
root ==
    Sequence("root",
        <<Literal("", "("), us, header, us, q_clause, us, a_clause, us, b_clause, us,
          Optional("", Sequence("", <<c_clause, us>>)),
          Optional("", Sequence("", <<d_clause, us>>)),
          e_clause,
          Optional("", Sequence("", <<us, f_clause, us, g_clause>>)),
          Literal("", ")")>>)

\* ------------------------------------------------------ the visitor

\* Optional values: None is <<>>, a value v is <<v>>
None == <<>>
Some(v) == <<v>>

NodeText(t, node) == Slice(t, node.start, node.end)

\* str.isdigit() and int() on the characters of the model
IsDigitStr(x) == x # "" /\ SpanWhile(x, 0, Digit, Len(x)) = Len(x)
RECURSIVE ParseNat(_)
ParseNat(x) ==
    IF x = "" THEN 0
    ELSE 10 * ParseNat(Slice(x, 0, Len(x) - 1)) + DigitVal(At(x, Len(x) - 1))

\* has_descendant(node, descnd_name)
RECURSIVE has_descendant(_, _)
has_descendant(node, nm) ==
    \/ node.expr_name = nm
    \/ \E i \in 1..Len(node.children) : has_descendant(node.children[i], nm)

\* visit_code_node: the set of the meanings of the code letters
RECURSIVE CodeSet(_)
CodeSet(codes) ==
    IF codes = "" THEN {} ELSE {At(codes, 0)} \cup CodeSet(Slice(codes, 1, Len(codes)))
TrafficMeaning(c) ==
    CASE c = "I" -> "IFR" [] c = "V" -> "VFR" [] c = "K" -> "CHECKLIST"
PurposeMeaning(c) ==
    CASE c = "N" -> "IMMEDIATE ATTENTION" [] c = "B" -> "OPERATIONAL SIGNIFICANCE"
      [] c = "O" -> "FLIGHT OPERATIONS" [] c = "M" -> "MISC" [] c = "K" -> "CHECKLIST"
ScopeMeaning(c) ==
    CASE c = "A" -> "AERODROME" [] c = "E" -> "EN-ROUTE"
      [] c = "W" -> "NAV WARNING" [] c = "K" -> "CHECKLIST"
visit_traffic_type(t, node) == {TrafficMeaning(c) : c \in CodeSet(NodeText(t, node))}
visit_purpose(t, node) == {PurposeMeaning(c) : c \in CodeSet(NodeText(t, node))}
visit_scope(t, node) == {ScopeMeaning(c) : c \in CodeSet(NodeText(t, node))}

\* timeutils.datetime(year, month, day, hour, minute, tzinfo=utc): ValueError
\* (ok = FALSE) unless the fields denote a calendar time
IsLeap(y) == (y % 4 = 0 /\ y % 100 # 0) \/ y % 400 = 0
DaysIn(y, m) ==
    IF m \in {4, 6, 9, 11} THEN 30
    ELSE IF m = 2 THEN (IF IsLeap(y) THEN 29 ELSE 28) ELSE 31
IsCalendarTime(y, m, d, hh, mm) ==
    /\ m \in 1..12 /\ d >= 1 /\ d <= DaysIn(y, m)
    /\ hh \in 0..23 /\ mm \in 0..59
DateTime(y, m, d, hh, mm, tz) ==
    [cls |-> "datetime", year |-> y, month |-> m, day |-> d, hour |-> hh,
     minute |-> mm, tzinfo |-> tz]
\* timeutils.datetime.max
DateTimeMax == DateTime(9999, 12, 31, 23, 59, "naive")
\* timeutils.EstimatedDateTime(dt): the same instant, flagged as an estimate
EstimatedDateTime(dt) == [dt EXCEPT !.cls = "EstimatedDateTime"]

\* the year of a 2-digit year, with >= in the place of >
PivotYear_mut(yy) == IF yy >= 80 THEN 1900 + yy ELSE 2000 + yy
PivotYear(yy) == IF yy > 80 THEN 1900 + yy ELSE 2000 + yy

\* visit_datetime: node is a datetime node, five int2 children
visit_datetime(t, node) ==
    LET v(i) == Int2(t, node.children[i].start)
        y == PivotYear(v(1))
    IN [ok |-> IsCalendarTime(y, v(2), v(3), v(4), v(5)),
        dt |-> DateTime(y, v(2), v(3), v(4), v(5), "UTC")]

\* visit_notamn_header / visit_notamr_header / visit_notamc_header on the
\* alternative the header matched
visit_notamX_header(t, hnode) ==
    LET alt == hnode.children[1]
        typ == CASE alt.expr_name = "notamn_header" -> "NEW"
                 [] alt.expr_name = "notamr_header" -> "REPLACE"
                 [] alt.expr_name = "notamc_header" -> "CANCEL"
    IN [notam_id |-> Some(NodeText(t, alt.children[1])),
        notam_type |-> Some(typ),
        ref_notam_id |-> IF typ \in {"REPLACE", "CANCEL"}
                         THEN Some(NodeText(t, alt.children[Len(alt.children)]))
                         ELSE None]

\* the least number of '/'-delimited parts of a Q) clause
MinQParts == 7
\* visit_q_clause (with visit_notam_code, visit_traffic_type, visit_purpose,
\* visit_scope and visit_area_of_effect, which run on its children first)
visit_q_clause(t, node) ==
    LET text == NodeText(t, node)
        q_body == IF StartsAt(text, 0, "Q)") THEN LStrip(Slice(text, 2, Len(text)))
                  ELSE text
        parts == Split(q_body, "/", 0)
        area == IF Len(parts) >= 8 THEN parts[8] ELSE ""
        m == area # "" /\ AreaEnd(area, 0) = Len(area)
        radius == IF m THEN Slice(area, 11, Len(area)) ELSE ""
    IN IF Len(parts) < MinQParts THEN [ok |-> FALSE]
       ELSE [ok |-> TRUE,
             fir |-> Some(Slice(parts[1], 0, 4)),
             notam_code |-> Some(NodeText(t, node.children[5])),
             traffic_type |-> Some(visit_traffic_type(t, node.children[7])),
             purpose |-> Some(visit_purpose(t, node.children[9])),
             scope |-> Some(visit_scope(t, node.children[11])),
             fl_lower |-> IF IsDigitStr(parts[6]) THEN Some(ParseNat(parts[6])) ELSE None,
             fl_upper |-> IF IsDigitStr(parts[7]) THEN Some(ParseNat(parts[7])) ELSE None,
             area |-> IF radius # ""
                      THEN Some([lat |-> Slice(area, 0, 5), long |-> Slice(area, 5, 11),
                                 radius |-> ParseNat(radius)])
                      ELSE None]

\* visit_a_clause: every icao_id below the node, and the span of the codes
RECURSIVE DfsIcao(_, _)
DfsIcao(t, node) ==
    IF node.expr_name = "icao_id" THEN <<NodeText(t, node)>>
    ELSE LET RECURSIVE Cat(_)
             Cat(i) == IF i > Len(node.children) THEN <<>>
                       ELSE DfsIcao(t, node.children[i]) \o Cat(i + 1)
         IN Cat(1)
visit_a_clause(t, node) ==
    [location |-> Some(DfsIcao(t, node)),
     indices_item_a |-> Some(<<node.children[3].start,
                               node.children[Len(node.children)].end>>)]

\* the span of the clause from its marker on, node.start, instead of that of
\* its content child
ContentSpan_mut(node) == <<node.children[1].start, node.children[3].end>>
\* the span of the content child, node.children[2]
ContentSpan(node) == <<node.children[3].start, node.children[3].end>>

\* visit_c_clause without the EST branch
visit_c_clause_mut(t, node) ==
    IF has_descendant(node, "permanent") THEN [ok |-> TRUE, dt |-> DateTimeMax]
    ELSE visit_datetime(t, node.children[3].children[1].children[1])
\* visit_c_clause: the value of valid_till
visit_c_clause(t, node) ==
    IF has_descendant(node, "permanent") THEN [ok |-> TRUE, dt |-> DateTimeMax]
    ELSE LET d == visit_datetime(t, node.children[3].children[1].children[1])
         IN IF has_descendant(node, "estimated")
            THEN [ok |-> d.ok, dt |-> EstimatedDateTime(d.dt)]
            ELSE d

\* Notam(): every field None
EmptyNotam ==
    [full_text |-> None, notam_id |-> None, notam_type |-> None, ref_notam_id |-> None,
     fir |-> None, notam_code |-> None, traffic_type |-> None, purpose |-> None,
     scope |-> None, fl_lower |-> None, fl_upper |-> None, area |-> None,
     location |-> None, valid_from |-> None, valid_till |-> None,
     schedule |-> None, body |-> None, limit_lower |-> None, limit_upper |-> None,
     indices_item_a |-> None, indices_item_b |-> None, indices_item_c |-> None,
     indices_item_d |-> None, indices_item_e |-> None, indices_item_f |-> None,
     indices_item_g |-> None, geometry |-> None]

\* the nodes below node (node included) that the expression named nm matched,
\* in the order of the text: the nodes on which NodeVisitor.visit calls visit_<nm>
RECURSIVE NodesNamed(_, _)
NodesNamed(node, nm) ==
    IF node.expr_name = nm THEN <<node>>
    ELSE LET RECURSIVE Cat(_)
             Cat(i) == IF i > Len(node.children) THEN <<>>
                       ELSE NodesNamed(node.children[i], nm) \o Cat(i + 1)
         IN Cat(1)

\* visit_d_clause .. visit_g_clause: the text and the span of the content child
visit_text_clause(t, nodes) ==
    IF nodes = <<>> THEN [text |-> None, span |-> None]
    ELSE [text |-> Some(NodeText(t, nodes[1].children[3])),
          span |-> Some(ContentSpan(nodes[1]))]

\* NodeVisitor.visit on the root node: each visit_ method on the nodes of its
\* name. The first exception a method raises ends the visit (parsimonious
\* wraps it in a VisitationError); otherwise the target holds every field.
Visit(t, rt) ==
    LET hd == visit_notamX_header(t, NodesNamed(rt, "header")[1])
        q == visit_q_clause(t, NodesNamed(rt, "q_clause")[1])
        a == visit_a_clause(t, NodesNamed(rt, "a_clause")[1])
        bn == NodesNamed(rt, "b_clause")[1]
        b == visit_datetime(t, bn.children[3])
        cs == NodesNamed(rt, "c_clause")
        c == visit_c_clause(t, cs[1])
        d == visit_text_clause(t, NodesNamed(rt, "d_clause"))
        e == visit_text_clause(t, NodesNamed(rt, "e_clause"))
        f == visit_text_clause(t, NodesNamed(rt, "f_clause"))
        g == visit_text_clause(t, NodesNamed(rt, "g_clause"))
    IN IF ~q.ok THEN [ok |-> FALSE, cause |-> "ParseQClauseError", n |-> EmptyNotam]
       ELSE IF ~b.ok \/ (cs # <<>> /\ ~c.ok)
       THEN [ok |-> FALSE, cause |-> "ValueError", n |-> EmptyNotam]
       ELSE [ok |-> TRUE, cause |-> "",
             n |-> [EmptyNotam EXCEPT
                 !.full_text = Some(t),
                 !.notam_id = hd.notam_id,
                 !.notam_type = hd.notam_type,
                 !.ref_notam_id = hd.ref_notam_id,
                 !.fir = q.fir, !.notam_code = q.notam_code,
                 !.traffic_type = q.traffic_type, !.purpose = q.purpose,
                 !.scope = q.scope, !.fl_lower = q.fl_lower, !.fl_upper = q.fl_upper,
                 !.area = q.area,
                 !.location = a.location, !.indices_item_a = a.indices_item_a,
                 !.valid_from = Some(b.dt),
                 !.indices_item_b = Some(ContentSpan(bn)),
                 !.valid_till = IF cs # <<>> THEN Some(c.dt) ELSE None,
                 !.indices_item_c = IF cs # <<>> THEN Some(ContentSpan(cs[1])) ELSE None,
                 !.schedule = d.text, !.indices_item_d = d.span,
                 !.body = e.text, !.indices_item_e = e.span,
                 !.limit_lower = f.text, !.indices_item_f = f.span,
                 !.limit_upper = g.text, !.indices_item_g = g.span]]

\* ------------------------------------------------ abbreviation decoding

\* \b of the regex at offset i of t
WordBoundary(t, i) == (At(t, i - 1) \in WordChar) # (At(t, i) \in WordChar)

\* the first key of the alternation that matches at offset i between two \b,
\* 0 when none does
RECURSIVE KeyAt(_, _, _, _)
KeyAt(keys, k, t, i) ==
    IF k > Len(keys) THEN 0
    ELSE IF StartsAt(t, i, keys[k]) /\ WordBoundary(t, i + Len(keys[k])) THEN k
    ELSE KeyAt(keys, k + 1, t, i)

\* _abbr.ICAO_abbr[key]
Expansion(dict, key) == (CHOOSE j \in 1..Len(dict) : dict[j].key = key)

RECURSIVE RegexSub(_, _, _, _, _)
\* regex.sub(lambda m: ICAO_abbr[m.group()], txt, count) from offset i: the
\* matches from left to right, none overlapping another; count = 0 replaces
\* them all
RegexSub(keys, dict, t, i, count) ==
    LET at == {j \in i..(Len(t) - 1) : WordBoundary(t, j) /\ KeyAt(keys, 1, t, j) # 0}
    IN IF at = {} THEN Slice(t, i, Len(t))
       ELSE LET m == MinOf(at)
                key == keys[KeyAt(keys, 1, t, m)]
                e == m + Len(key)
            IN Slice(t, i, m) \o dict[Expansion(dict, key)].exp
               \o (IF count = 1 THEN Slice(t, e, Len(t))
                   ELSE RegexSub(keys, dict, t, e, count))

\* the keys of the dictionary, in its order: the alternation of the regex
DictKeys(dict) == [j \in 1..Len(dict) |-> dict[j].key]

\* decode_abbr replacing the first match only
decode_abbr_mut(keys, dict, txt) == RegexSub(keys, dict, txt, 0, 1)
\* Notam.decode_abbr(txt) with the compiled alternation keys
decode_abbr(keys, dict, txt) == RegexSub(keys, dict, txt, 0, 0)

\* --------------------------------------------------------- Notam.decoded

\* list.sort() of the (start, end) pairs
PairLeq(a, b) == a[1] < b[1] \/ (a[1] = b[1] /\ a[2] <= b[2])
RECURSIVE SortPairs(_)
SortPairs(ps) ==
    IF Len(ps) <= 1 THEN ps
    ELSE LET rest == SortPairs(Tail(ps))
             RECURSIVE Ins(_, _)
             Ins(x, q) == IF q = <<>> THEN <<x>>
                          ELSE IF PairLeq(x, Head(q)) THEN <<x>> \o q
                          ELSE <<Head(q)>> \o Ins(x, Tail(q))
         IN Ins(Head(ps), rest)

\* t[a:b] of Python, a negative offset counting from the end
PySlice(t, a, b) ==
    LET aa == IF a < 0 THEN Max(Len(t) + a, 0) ELSE a
        bb == IF b < 0 THEN Max(Len(t) + b, 0) ELSE b
    IN Slice(t, aa, bb)

\* the spans of the clauses D, E, F, G that are not None
DecodedSpans(nn) ==
    nn.indices_item_d \o nn.indices_item_e \o nn.indices_item_f \o nn.indices_item_g

\* Notam.decoded(): the spans decoded, the gaps between them copied
decoded(nn, keys, dict) ==
    IF nn.full_text = None \/ nn.full_text = Some("") THEN ""
    ELSE LET ft == nn.full_text[1]
             indices == <<<<0, 0>>>> \o SortPairs(DecodedSpans(nn)) \o <<<<-1, -1>>>>
             RECURSIVE Walk(_)
             Walk(i) ==
                 IF i >= Len(indices) THEN ""
                 ELSE LET cur == indices[i]
                          nxt == indices[i + 1]
                      IN decode_abbr(keys, dict, PySlice(ft, cur[1], cur[2]))
                         \o PySlice(ft, cur[2], nxt[1])
                         \o Walk(i + 1)
         IN Walk(1)

\* ------------------------------------------------------------ inputs

\* the longest free text of a D, E, F or G clause that is enumerated
MaxBodyLen == 3
\* the longest text handed to decode_abbr alone
MaxTextLen == 4
\* the most parts the geometry cascade yields for one body
MaxParts == 2

\* every string over chars of length at most k
RECURSIVE Strings(_, _)
Strings(chars, k) ==
    IF k = 0 THEN {""}
    ELSE LET shorter == Strings(chars, k - 1)
         IN shorter \cup {x \o c : x \in shorter, c \in chars}

Tags == <<"Q", "A", "B", "C", "D", "E", "F", "G">>
DefaultText(tag) ==
    CASE tag = "Q" -> "ULLL/QRTCA/IV/BO/W/000/050"
      [] tag = "A" -> "ULLL"
      [] tag = "B" -> "2509050601"
      [] tag = "C" -> "2509101659"
      [] tag = "D" -> "DAILY 0601-1659"
      [] tag = "E" -> "RWY CLSD (6100 M) AMSL."
      [] tag = "F" -> "SFC"
      [] tag = "G" -> "1500M AMSL"
DefaultHeader == "A1234/25 NOTAMN"

\* one clause of a telegram: the separator before it, its label, the
\* whitespace after the marker and its text; form describes a C) text
Item(tag, sep, ws, txt, form) ==
    [tag |-> tag, sep |-> sep, ws |-> ws, txt |-> txt, form |-> form]
DefaultItem(tag) ==
    Item(tag, " ", "", DefaultText(tag), IF tag = "C" THEN "plain" ELSE "")
\* a telegram: what precedes the opening parenthesis, the parenthesis, the
\* header, the clauses, the closing parenthesis and what follows it
Telegram(fam, lead, open, hdr, items, close, trail) ==
    [fam |-> fam, lead |-> lead, open |-> open, hdr |-> hdr, items |-> items,
     close |-> close, trail |-> trail]
Plain(fam, items) == Telegram(fam, "", "(", DefaultHeader, items, ")", "")

RECURSIVE RenderItems(_, _)
RenderItems(items, i) ==
    IF i > Len(items) THEN ""
    ELSE items[i].sep \o items[i].tag \o ")" \o items[i].ws \o items[i].txt
         \o RenderItems(items, i + 1)
Render(tg) ==
    tg.lead \o tg.open \o tg.hdr \o RenderItems(tg.items, 1) \o tg.close \o tg.trail

\* the clauses whose index is in S, in the order of the indices
RECURSIVE Layout(_, _)
Layout(S, i) ==
    IF i > Len(Tags) THEN <<>>
    ELSE (IF i \in S THEN <<DefaultItem(Tags[i])>> ELSE <<>>) \o Layout(S, i + 1)
Swap(items, i) ==
    [j \in 1..Len(items) |->
        IF j = i THEN items[i + 1] ELSE IF j = i + 1 THEN items[i] ELSE items[j]]
WithItem(items, tag, it) ==
    [j \in 1..Len(items) |-> IF items[j].tag = tag THEN it ELSE items[j]]
Full == Layout(1..8, 1)
Minimal == Layout({1, 2, 3, 6}, 1)

\* every selection of clauses in the fixed order, and neighbours exchanged
LayoutFamily ==
    {Plain("layout", Layout(S, 1)) : S \in SUBSET (1..8)}
    \cup {Plain("layout", Swap(Full, i)) : i \in 1..7}
    \cup {Plain("layout", Swap(Minimal, i)) : i \in 1..3}

\* B) values: two-digit years around the pivot, dates and times in and out of
\* the calendar
BValues ==
    {yy \o md \o hm : yy \in {"00", "25", "80", "81", "85", "99"},
                      md \in {"0101", "0229", "0431", "0905", "1231", "1301", "0100"},
                      hm \in {"0000", "0601", "2359", "2400", "0060"}}
BFamily ==
    {Plain("b", WithItem(Minimal, "B", Item("B", sep, ws, v, ""))) :
        v \in BValues, sep \in {" "}, ws \in {"", " "}}

\* C) texts with the form they show
CForms ==
    {<<"2509101659", "plain">>, <<"8109101659", "plain">>,
     <<"2509101659EST", "est">>, <<"2509101659 EST", "est">>,
     <<"2509101659\nEST ", "est">>, <<"8509101659  EST  ", "est">>,
     <<"2513101659 EST", "est">>, <<"2509101659 ", "plain">>,
     <<"PERM", "perm">>, <<"PERM ", "perm">>, <<"PERM EST", "perm">>,
     <<"2509101659 PERM", "plain">>}
CFamily ==
    {Plain("c", WithItem(lay, "C", Item("C", " ", ws, cf[1], cf[2]))) :
        cf \in CForms, ws \in {"", " "},
        lay \in {Layout({1, 2, 3, 4, 6}, 1), Full}}
    \cup {Plain("c", lay) : lay \in {Minimal, Layout({1, 2, 3, 5, 6}, 1),
                                     Layout({1, 2, 3, 6, 7, 8}, 1)}}

\* free texts over a letter that is no clause label, a clause label, a space
\* and a closing parenthesis, in each of the clauses D, E, F, G
BodyChars == {"M", "E", " ", ")"}
TextFamily ==
    {Plain("text", WithItem(Layout(lay[1], 1), lay[2], Item(lay[2], " ", ws, txt, ""))) :
        lay \in {<<{1, 2, 3, 6}, "E">>, <<{1, 2, 3, 5, 6}, "D">>, <<{1, 2, 3, 5}, "D">>,
                 <<{1, 2, 3, 6, 7, 8}, "F">>, <<{1, 2, 3, 6, 7, 8}, "G">>},
        ws \in {"", " "},
        txt \in Strings(BodyChars, MaxBodyLen)}

\* Q) texts of one to eight fields
QTexts ==
    {"", "ULLL", "ULLL/QRTCA", "ULLL/QRTCA/IV", "ULLL/QRTCA/IV/BO",
     "ULLL/QRTCA/IV/BO/W", "ULLL/QRTCA/IV/BO/W/000", "ULLL/QRTCA/IV/BO/W/000/050",
     "ULLL/QRTCA/IV/BO/W/000/050/5850N03021E007",
     "ULLL/QRTCA/IV/BO/W/000/050/5850N03021E", "ULLL/QRTCA///W/000/   ",
     "ULLL/QRTCA/IVK/NBOMK/AEWK/000/999/5850S03021W5",
     "ULLL/QRTCA/IV/BO/W/000/050/", "ULLL/QRTCA/IV/BO/W/000/050/5850N03021E0075"}
QFamily ==
    {Plain("q", WithItem(lay, "Q", Item("Q", sep, ws, q, ""))) :
        q \in QTexts, sep \in {" ", "\n"}, ws \in {"", " "}, lay \in {Minimal, Full}}

\* what surrounds the telegram, its headers, and telegrams that break off
Headers ==
    {DefaultHeader, "A1234/25 NOTAMR B4321/24", "C3795/25A05 NOTAMC B4321/24",
     "A1234/25 NOTAMR", "U1234/25 NOTAMN\nQ)MALFORMED", "A1234/25  NOTAMX", ""}
NewlineItems(items) == [j \in 1..Len(items) |-> [items[j] EXCEPT !.sep = "\n"]]
BrokenOff ==
    {Minimal, NewlineItems(Full), <<>>,
     <<Item("Q", " ", "", "", "")>>,
     <<Item("Q", "\n", "", "", "")>>,
     NewlineItems(Layout({1, 2}, 1)) \o <<Item("B", "\n", "", "", "")>>,
     NewlineItems(Layout({1, 2, 3}, 1)) \o <<Item("E", "\n", "", "", "")>>,
     Layout({1, 2, 3}, 1) \o <<Item("E", " ", "", "", "")>>,
     NewlineItems(Layout({1, 2, 3}, 1)) \o <<Item("C", "\n", "", "2509101659", "plain")>>,
     NewlineItems(Layout({1, 2, 3, 6}, 1)) \o <<Item("F", "\n", "", "", "")>>}
WrapFamily ==
    {Telegram("wrap", lead, open, DefaultHeader, items, close, trail) :
        lead \in {"", " ", "\n"}, open \in {"(", ""}, items \in BrokenOff,
        close \in {")", ""}, trail \in {"", " ", "\n", "\n\n"}}
    \cup {Telegram("wrap", "", "(", h, items, close, trail) :
        h \in Headers, items \in {Minimal, <<>>}, close \in {")", ""},
        trail \in {"", "\n"}}

Inputs == LayoutFamily \cup BFamily \cup CFamily \cup TextFamily \cup QFamily \cup WrapFamily

\* the dictionary _abbr.ICAO_abbr: abbreviation and expansion
Entry(k, e) == [key |-> k, exp |-> e]
ICAO_abbr == <<Entry("CLSD", "CLOSED"), Entry("RWY", "RUNWAY"), Entry("SFC", "SURFACE"),
               Entry("E", "EAST")>>

\* dictionaries and texts for decode_abbr alone, over a small alphabet
AbbrDicts ==
    {<<Entry("A", "X")>>,
     <<Entry("A", "B B")>>,
     <<Entry("AB", "A/A")>>,
     <<Entry("A", "B"), Entry("AB", "X")>>,
     <<Entry("AB", "X"), Entry("A", "")>>,
     <<Entry("A", "B"), Entry("B/B", "X")>>,
     <<Entry("A/B", "B/A")>>,
     <<Entry("A", "A A")>>,
     <<Entry("A", "B"), Entry("B", "A")>>}
AbbrChars == {"A", "B", "/", " "}
AbbrTexts == Strings(AbbrChars, MaxTextLen)

\* ------------------------------------------------- Notam.from_str

VARIABLES
    s,      \* the text handed to Notam.from_str or to decode_abbr
    src,    \* how that text is composed (a telegram of Inputs), for the record
    pc,     \* the position in from_str, or of the decode_abbr calls
    n,      \* the Notam instance
    exc,    \* the exception that reached the caller, None when there is none
    geo,    \* the geometry steps that raised and the number of parts found
    out,    \* the value of n.decoded(), None before the call
    abbr,   \* the dictionary _abbr.ICAO_abbr
    regex,  \* Notam.decode_abbr.regex: the alternation compiled at the first call
    once,   \* decode_abbr(s)
    twice,  \* decode_abbr(decode_abbr(s))
    call,   \* the call of a function of scripts/geo.py: its name and its arguments
    ret,    \* what that call returned or raised, None while it has not ended
    wk,     \* the workers that decode concurrently: position, locals and result
    site,   \* the file names the index page of the NOTAM site lists now
    stored, \* the text of current/.scrape_timestamp, None while there is no file
    current, \* the names of the files saved in current/
    docs    \* docs/: the text of scrape_timestamp and the source of each geojson
\* the files of the scraper
scraperVars == <<site, stored, current, docs>>
vars == <<s, src, pc, n, exc, geo, out, abbr, regex, once, twice, call, ret, wk,
          site, stored, current, docs>>
\* the variables the calls of Notam leave alone
geoVars == <<call, ret, wk, scraperVars>>
\* the scraper has not run: no listing, and nothing on disk
ScraperIdle ==
    /\ site = <<>>
    /\ stored = <<>>
    /\ current = {}
    /\ docs = [stamp |-> <<>>, geojson |-> {}]

\* the longest snippet
SnippetMax == 120

CorruptedMsg == "Corrupted NOTAM: missing opening or closing parenthesis"
FailedMsg == "Failed to parse NOTAM"
\* NotamParseError(message, line=, column=, snippet=, original=); cause is the
\* exception a VisitationError wraps
NotamParseError(msg, line, column, snippet, original, cause) ==
    [type |-> "NotamParseError", message |-> msg, line |-> line, column |-> column,
     snippet |-> snippet, original |-> original, cause |-> cause]
\* an IndexError leaving the except block of from_str
IndexError ==
    [type |-> "IndexError", message |-> "list index out of range", line |-> None,
     column |-> None, snippet |-> None, original |-> "", cause |-> ""]

\* s.strip().startswith("(") and s.rstrip().endswith(")")
PassesPrecheck(t) ==
    /\ StartsAt(Strip(t), 0, "(")
    /\ At(RStrip(t), Len(RStrip(t)) - 1) = ")"

\* the NotamParseError of the precheck
CorruptedError(t) ==
    LET lines == SplitLines(t, 0)
    IN NotamParseError(CorruptedMsg, None, None,
           IF Strip(t) # "" THEN Some(Slice(Strip(lines[Len(lines)]), 0, SnippetMax))
           ELSE None,
           "", "")

\* the except block of from_str for a ParseError at offset pos of text: the
\* NotamParseError raised, or the IndexError of splitlines()[line - 1]
ParseErrorContext(text, pos, original) ==
    LET prior == Slice(text, 0, pos)
        line == CountChar(prior, "\n") + 1
        col_start == RFindNl(prior)
        column == IF col_start = -1 THEN pos + 1 ELSE pos - col_start
        lines == SplitLines(text, 0)
    IN IF line > Len(lines) THEN IndexError
       ELSE NotamParseError(FailedMsg, Some(line), Some(column),
                Some(Slice(Strip(lines[line]), 0, SnippetMax)), original, "")

Init ==
    /\ src \in Inputs
    /\ s = Render(src)
    /\ pc = "call"
    /\ n = EmptyNotam
    /\ exc = None
    /\ geo = [raised |-> {}, parts |-> 0]
    /\ out = None
    /\ abbr = ICAO_abbr
    /\ regex = None
    /\ once = None
    /\ twice = None
    /\ call = None
    /\ ret = None
    /\ wk = <<>>
    /\ ScraperIdle

\* from_str, lines 110-117: the structural precheck
Precheck ==
    /\ pc = "call"
    /\ IF PassesPrecheck(s)
       THEN pc' = "grammar" /\ exc' = exc
       ELSE pc' = "raised" /\ exc' = Some(CorruptedError(s))
    /\ UNCHANGED <<s, src, n, geo, out, abbr, regex, once, twice>>
    /\ UNCHANGED geoVars

\* from_str, lines 118-144: the grammar, the visitor and the except block
Parse ==
    /\ pc = "grammar"
    /\ LET r == GrammarParse(root, s)
           v == Visit(s, r.node)
       IN IF ~r.ok
          THEN /\ pc' = "raised"
               /\ exc' = Some(ParseErrorContext(s, r.pos,
                              IF r.pos >= 0 /\ MatchCore(root, s, 0, NoError).ok
                              THEN "IncompleteParseError" ELSE "ParseError"))
               /\ n' = n
          ELSE IF ~v.ok
          THEN /\ pc' = "raised"
               /\ exc' = Some(NotamParseError(FailedMsg, None, None, None,
                                              "VisitationError", v.cause))
               /\ n' = n
          ELSE /\ pc' = "geometry"
               /\ exc' = exc
               /\ n' = v.n
    /\ UNCHANGED <<s, src, geo, out, abbr, regex, once, twice>>
    /\ UNCHANGED geoVars

\* the steps of the geometry derivation that can raise, in the order they run
GeoSteps == {"import", "altitude", "pattern", "shape", "union", "collection", "mapping"}
FaultChoices ==
    {{}} \cup {{x} : x \in GeoSteps} \cup {{"union", "collection"}, {"union", "mapping"}}

\* the geometry derivation with no try around it
DeriveGeometry_mut(faults, k) ==
    LET early == faults \cap {"import", "altitude", "pattern", "shape"}
    IN IF early # {} THEN [escapes |-> TRUE, raised |-> early, parts |-> 0, geometry |-> None]
       ELSE IF k = 0 THEN [escapes |-> FALSE, raised |-> {}, parts |-> 0, geometry |-> None]
       ELSE IF faults # {}
       THEN [escapes |-> TRUE, raised |-> faults, parts |-> k, geometry |-> None]
       ELSE [escapes |-> FALSE, raised |-> {}, parts |-> k,
             geometry |-> Some([type |-> "unary_union", parts |-> k])]
\* from_str, lines 146-166: faults are the steps that raise when they run, k is
\* the number of parts build_parts_from_E returns
DeriveGeometry(faults, k) ==
    LET early == faults \cap {"import", "altitude", "pattern", "shape"}
        late == IF "union" \in faults THEN faults \cap {"union", "collection", "mapping"}
                ELSE faults \cap {"mapping"}
        merged == IF "union" \in faults THEN "GeometryCollection" ELSE "unary_union"
    IN IF early # {}
       THEN [escapes |-> FALSE, raised |-> early, parts |-> 0, geometry |-> None]
       ELSE IF k = 0
       THEN [escapes |-> FALSE, raised |-> {}, parts |-> 0, geometry |-> None]
       ELSE IF late \cap {"collection", "mapping"} # {}
       THEN [escapes |-> FALSE, raised |-> late, parts |-> k, geometry |-> None]
       ELSE [escapes |-> FALSE, raised |-> late, parts |-> k,
             geometry |-> Some([type |-> merged, parts |-> k])]

\* from_str, lines 146-167: the best-effort geometry, and the return
Geometry ==
    /\ pc = "geometry"
    /\ \E faults \in FaultChoices, k \in 0..MaxParts :
        LET g == DeriveGeometry(faults, k)
        IN /\ geo' = [raised |-> g.raised, parts |-> g.parts]
           /\ IF g.escapes
              THEN /\ pc' = "raised"
                   /\ exc' = Some([IndexError EXCEPT !.type = "Exception",
                                                     !.message = "geometry"])
                   /\ n' = n
              ELSE /\ pc' = "returned"
                   /\ exc' = exc
                   /\ n' = [n EXCEPT !.geometry = g.geometry]
    /\ UNCHANGED <<s, src, out, abbr, regex, once, twice>>
    /\ UNCHANGED geoVars

\* the alternation decode_abbr uses: compiled from the dictionary at the first call
Compiled(rx, dict) == IF rx = None THEN DictKeys(dict) ELSE rx[1]

\* n.decoded() on the instance from_str returned
Decoded ==
    /\ pc = "returned"
    /\ out = None
    /\ out' = Some(decoded(n, Compiled(regex, abbr), abbr))
    /\ regex' = Some(Compiled(regex, abbr))
    /\ UNCHANGED <<s, src, pc, n, exc, geo, abbr, once, twice>>
    /\ UNCHANGED geoVars

Next == Precheck \/ Parse \/ Geometry \/ Decoded

Spec == Init /\ [][Next]_vars

\* ------------------------------------------- decode_abbr called twice

InitAbbr ==
    /\ s \in AbbrTexts
    /\ abbr \in AbbrDicts
    /\ src = Plain("abbr", <<>>)
    /\ pc = "decode"
    /\ n = EmptyNotam
    /\ exc = None
    /\ geo = [raised |-> {}, parts |-> 0]
    /\ out = None
    /\ regex = None
    /\ once = None
    /\ twice = None
    /\ call = None
    /\ ret = None
    /\ wk = <<>>
    /\ ScraperIdle

\* once = Notam.decode_abbr(s)
DecodeOnce ==
    /\ pc = "decode"
    /\ once' = Some(decode_abbr(Compiled(regex, abbr), abbr, s))
    /\ regex' = Some(Compiled(regex, abbr))
    /\ pc' = "decoded"
    /\ UNCHANGED <<s, src, n, exc, geo, out, abbr, twice>>
    /\ UNCHANGED geoVars

\* twice = Notam.decode_abbr(once)
DecodeTwice ==
    /\ pc = "decoded"
    /\ twice' = Some(decode_abbr(Compiled(regex, abbr), abbr, once[1]))
    /\ regex' = Some(Compiled(regex, abbr))
    /\ pc' = "redecoded"
    /\ UNCHANGED <<s, src, n, exc, geo, out, abbr, once>>
    /\ UNCHANGED geoVars

NextAbbr == DecodeOnce \/ DecodeTwice

SpecAbbr == InitAbbr /\ [][NextAbbr]_vars

\* ------------------------------------------------- decode_abbr on several workers

\* the workers that call Notam.decode_abbr at the same time
NWorkers == 2
Workers == 1..NWorkers
\* the texts they decode, and the dictionaries
ConcTexts == {"", "A", "AB", "A B/B"}
ConcDicts ==
    {<<Entry("A", "X")>>,
     <<Entry("A", "B"), Entry("AB", "X")>>,
     <<Entry("AB", "X"), Entry("A", "")>>,
     <<Entry("A", "B"), Entry("B/B", "X")>>}

\* a worker at the start of decode_abbr(txt): pattern is the regex it compiled
\* itself, result what the call returned
Worker(txt) == [txt |-> txt, pc |-> "check", pattern |-> None, result |-> None]

InitConc ==
    /\ wk \in [Workers -> {Worker(t) : t \in ConcTexts}]
    /\ abbr \in ConcDicts
    /\ regex = None
    /\ s = ""
    /\ src = Plain("workers", <<>>)
    /\ pc = "workers"
    /\ n = EmptyNotam
    /\ exc = None
    /\ geo = [raised |-> {}, parts |-> 0]
    /\ out = None
    /\ once = None
    /\ twice = None
    /\ call = None
    /\ ret = None
    /\ ScraperIdle

\* the variables a step of a worker leaves alone, but for wk and regex
workerVars == <<s, src, pc, n, exc, geo, out, abbr, once, twice, call, ret,
                scraperVars>>

\* _re.compile of the alternation of the keys, cut short after the first key
CompilePattern_mut(dict) == SubSeq(DictKeys(dict), 1, 1)
\* _re.compile(r"\b(" + "|".join(keys) + r")\b"): the alternation of the keys
CompilePattern(dict) == DictKeys(dict)

\* line 172: if not getattr(Notam.decode_abbr, "regex", False)
CheckRegex ==
    \E w \in Workers :
        /\ wk[w].pc = "check"
        /\ wk' = [wk EXCEPT ![w].pc = IF regex = None THEN "compile" ELSE "sub"]
        /\ UNCHANGED <<regex, workerVars>>

\* lines 173-177: the right-hand side, _re.compile(...)
CompileRegex ==
    \E w \in Workers :
        /\ wk[w].pc = "compile"
        /\ wk' = [wk EXCEPT ![w].pattern = Some(CompilePattern(abbr)), ![w].pc = "store"]
        /\ UNCHANGED <<regex, workerVars>>

\* line 173: the assignment to Notam.decode_abbr.regex
StoreRegex ==
    \E w \in Workers :
        /\ wk[w].pc = "store"
        /\ regex' = wk[w].pattern
        /\ wk' = [wk EXCEPT ![w].pc = "sub"]
        /\ UNCHANGED workerVars

\* line 178: Notam.decode_abbr.regex.sub(...) with the regex stored at that time
SubRegex ==
    \E w \in Workers :
        /\ wk[w].pc = "sub"
        /\ wk' = [wk EXCEPT ![w].result = Some(decode_abbr(regex[1], abbr, wk[w].txt)),
                            ![w].pc = "done"]
        /\ UNCHANGED <<regex, workerVars>>

NextConc == CheckRegex \/ CompileRegex \/ StoreRegex \/ SubRegex

SpecConc == InitConc /\ [][NextConc]_vars

\* ------------------------------------------------- scripts/geo.py

\* what a call returns, and what it raises
Returns(v) == [raised |-> FALSE, err |-> "", val |-> v]
Raises(e) == [raised |-> TRUE, err |-> e, val |-> None]

\* an assignment v = ... followed by the statements F that use v
With(v, F(_)) == F(v)

\* dms_token_to_deg with two digits of degrees in a token of five digits
dms_token_to_deg_mut(token) ==
    With(Strip(token), LAMBDA t :
    With(Slice(t, 0, Len(t) - 1), LAMBDA num :
    With(At(t, Len(t) - 1), LAMBDA hemi :
    With(Len(t) - 1, LAMBDA k :
        IF ~(k \in 4..7 /\ IsDigitStr(num) /\ hemi \in {"N", "S", "E", "W"})
        THEN Raises("ValueError")
        ELSE With(IF k = 7 THEN 3 ELSE 2, LAMBDA w :
             With(ParseNat(Slice(num, 0, w)) * 3600 + ParseNat(Slice(num, w, w + 2)) * 60
                  + (IF k >= 6 THEN ParseNat(Slice(num, w + 2, w + 4)) ELSE 0), LAMBDA deg :
                 Returns(IF hemi \in {"S", "W"} THEN 0 - deg ELSE deg)))))))

\* dms_token_to_deg(token): the signed angle, in seconds of arc (degrees times
\* 3600), or ValueError
dms_token_to_deg(token) ==
    With(Strip(token), LAMBDA t :
    With(Slice(t, 0, Len(t) - 1), LAMBDA num :
    With(At(t, Len(t) - 1), LAMBDA hemi :
    With(Len(t) - 1, LAMBDA k :
        IF ~(k \in 4..7 /\ IsDigitStr(num) /\ hemi \in {"N", "S", "E", "W"})
        THEN Raises("ValueError")
        ELSE With(IF k \in {7, 5} THEN 3 ELSE 2, LAMBDA w :
             With(ParseNat(Slice(num, 0, w)) * 3600 + ParseNat(Slice(num, w, w + 2)) * 60
                  + (IF k >= 6 THEN ParseNat(Slice(num, w + 2, w + 4)) ELSE 0), LAMBDA deg :
                 Returns(IF hemi \in {"S", "W"} THEN 0 - deg ELSE deg)))))))

\* the points of coords with no point equal to the one before it
RECURSIVE DedupAdjacent(_)
DedupAdjacent(coords) ==
    IF Len(coords) <= 1 THEN coords
    ELSE LET front == DedupAdjacent(SubSeq(coords, 1, Len(coords) - 1))
             pt == coords[Len(coords)]
         IN IF pt # front[Len(front)] THEN Append(front, pt) ELSE front

\* the fewest coordinates of a ring shapely builds whatever its version
MinRingCoords == 4
\* shapely's Polygon(coords): a ring of fewer than four coordinates is refused
\* by the versions of shapely that are strict about it, built by the others
ShapelyPolygon(coords, strict) ==
    IF Len(coords) < MinRingCoords /\ strict THEN Raises("ValueError")
    ELSE Returns([type |-> "Polygon", ring |-> coords])

\* the fewest points of a polygon
MinVertices == 3
\* build_polygon(coords): the polygon of the ring, closed if needed, or the
\* error a caller sees
build_polygon(coords, strict) ==
    IF coords = <<>> THEN Raises("ValueError: Polygon requires at least 3 points")
    ELSE LET unique_coords == DedupAdjacent(coords)
         IN IF Len(unique_coords) < MinVertices /\ Len(coords) < MinVertices
            THEN Raises("ValueError: Polygon requires at least 3 points")
            ELSE LET kept == IF Len(unique_coords) < MinVertices THEN coords
                             ELSE unique_coords
                     closed == IF kept[1] # kept[Len(kept)] THEN Append(kept, kept[1])
                               ELSE kept
                 IN ShapelyPolygon(closed, strict)

\* the bearings of a full turn, and the default number of vertices of a turn
FullTurn == 360
SectorN == 128
MinSteps == 8
\* build_sector without the wrap-around of the span
build_sector_mut(az_min_deg, az_max_deg, nn) ==
    LET span == az_max_deg - az_min_deg
        steps == Max(MinSteps, IF span >= 0 THEN (nn * span) \div FullTurn
                               ELSE 0 - ((nn * (0 - span)) \div FullTurn))
        centre == [r |-> 0, num |-> 0, den |-> steps]
    IN Returns(<<centre>>
        \o [i \in 1..(steps + 1) |->
                [r |-> 1, num |-> (az_min_deg * steps + (i - 1) * span) % (FullTurn * steps),
                 den |-> steps]]
        \o <<centre>>)
\* build_sector(center, radius_m, az_min_deg, az_max_deg, n): the ring in the
\* local plane, each vertex by its distance from the centre (in radii) and its
\* bearing num/den degrees clockwise from north
build_sector(az_min_deg, az_max_deg, nn) ==
    LET span == (az_max_deg - az_min_deg) % FullTurn
        steps == Max(MinSteps, (nn * span) \div FullTurn)
        centre == [r |-> 0, num |-> 0, den |-> steps]
    IN Returns(<<centre>>
        \o [i \in 1..(steps + 1) |->
                [r |-> 1, num |-> (az_min_deg * steps + (i - 1) * span) % (FullTurn * steps),
                 den |-> steps]]
        \o <<centre>>)


\* the offset after \d+(?:\.\d+)? at offset p of t, -1 when it does not match
DecimalEnd(t, p) ==
    With(SpanWhile(t, p, Digit, Len(t)), LAMBDA d1 :
    With(SpanWhile(t, p + d1 + 1, Digit, Len(t)), LAMBDA d2 :
        IF d1 = 0 THEN -1
        ELSE IF At(t, p + d1) = "." /\ d2 > 0 THEN p + d1 + 1 + d2
        ELSE p + d1))

\* t with every character of cs replaced by to
RECURSIVE ReplaceChars(_, _, _)
ReplaceChars(t, cs, to) ==
    IF t = "" THEN ""
    ELSE ReplaceChars(Slice(t, 0, Len(t) - 1), cs, to)
         \o (IF At(t, Len(t) - 1) \in cs THEN to ELSE At(t, Len(t) - 1))

\* t.split(): the runs of t between whitespace
SplitWs(t) == SelectSeq(Split(ReplaceChars(t, {"\n"}, " "), " ", 0), LAMBDA x : x # "")

\* the unit at offset p of t, in the order of the alternation KM|NM|M
UnitAt(t, p) ==
    IF StartsAt(t, p, "KM") THEN "KM"
    ELSE IF StartsAt(t, p, "NM") THEN "NM"
    ELSE IF StartsAt(t, p, "M") THEN "M"
    ELSE ""

\* str.upper() on the letters of the model
UpperOf(c) ==
    CASE c = "k" -> "K" [] c = "m" -> "M" [] c = "n" -> "N" [] c = "i" -> "I"
      [] OTHER -> c
RECURSIVE ToUpper(_)
ToUpper(t) ==
    IF t = "" THEN ""
    ELSE ToUpper(Slice(t, 0, Len(t) - 1)) \o UpperOf(At(t, Len(t) - 1))

\* float(v) of a decimal of at most three places, in thousandths
RECURSIVE Pow10(_)
Pow10(k) == IF k <= 0 THEN 1 ELSE 10 * Pow10(k - 1)
DecimalMilli(v) ==
    With(SpanWhile(v, 0, Digit, Len(v)), LAMBDA d :
    With(Slice(v, d + 1, Len(v)), LAMBDA frac :
        ParseNat(Slice(v, 0, d)) * 1000 + ParseNat(frac) * Pow10(3 - Len(frac))))

\* m_from_text(val_text): the number and the unit of a distance and its value
\* in millimetres (the number times 1000, 1852 or 1 metres), or ValueError
m_from_text(val_text) ==
    With(ReplaceChars(ToUpper(Strip(val_text)), {" "}, ""), LAMBDA t :
    With(DecimalEnd(t, 0), LAMBDA e :
        IF e = -1 THEN Raises("ValueError")
        ELSE With(UnitAt(t, e), LAMBDA unit :
            IF unit = "" THEN Raises("ValueError")
            ELSE Returns([num |-> Slice(t, 0, e), unit |-> unit,
                          mm |-> DecimalMilli(Slice(t, 0, e))
                                 * (CASE unit = "KM" -> 1000 [] unit = "NM" -> 1852
                                      [] OTHER -> 1)]))))

\* float(x) for a text of digits and dots: the number, or ValueError
ParseFloat(x) ==
    IF x # "" /\ SpanWhile(x, 0, Digit \cup {"."}, Len(x)) = Len(x)
       /\ CountChar(x, ".") <= 1 /\ x # "."
    THEN Returns(x) ELSE Raises("ValueError")

\* parse_alt_text(alt): the descriptor of an F) or G) text
parse_alt_text(alt) ==
    With(Strip(alt), LAMBDA t :
    With(DecimalEnd(t, 0), LAMBDA e :
    With(SpanWhile(t, e + 1, Whitespace, Len(t)), LAMBDA w :
    With(Slice(t, e + 1 + w, Len(t)), LAMBDA ref :
    With(Slice(t, 2, Len(t)), LAMBDA fl :
        IF t \in {"SFC", "GND"} THEN [type |-> t]
        ELSE IF StartsAt(t, 0, "FL") /\ Len(fl) \in {2, 3} /\ IsDigitStr(fl)
        THEN [type |-> "ALT", unit |-> "FL", value |-> ParseNat(fl)]
        ELSE IF e # -1 /\ At(t, e) = "M" /\ w > 0 /\ ref \in {"AMSL", "AGL"}
        THEN [type |-> "ALT", unit |-> "M", value |-> Slice(t, 0, e), ref |-> ref]
        ELSE IF e # -1 /\ At(t, e) = "M" /\ e + 1 = Len(t)
        THEN [type |-> "ALT", unit |-> "M", value |-> Slice(t, 0, e)]
        ELSE [type |-> "UNKNOWN", raw |-> alt])))))

\* the offset after \d{lo,hi}[hemis] at offset p of t, -1 when it does not match
DmsEnd(t, p, lo, hi, hemis) ==
    With(SpanWhile(t, p, Digit, Len(t)), LAMBDA d :
        IF d >= lo /\ d <= hi /\ At(t, p + d) \in hemis THEN p + d + 1 ELSE -1)
LatEnd(t, p) == DmsEnd(t, p, 4, 6, {"N", "S"})
LonEnd(t, p) == DmsEnd(t, p, 5, 7, {"E", "W"})

\* the point (lon, lat) of two tokens, or the ValueError of dms_token_to_deg
PointOf(lat_tok, lon_tok) ==
    With(dms_token_to_deg(lat_tok), LAMBDA lat :
    With(dms_token_to_deg(lon_tok), LAMBDA lon :
        IF lat.raised \/ lon.raised THEN Raises("ValueError")
        ELSE Returns(<<lon.val, lat.val>>)))

\* parse_latlon_pair(pair): the point (lon, lat), or ValueError
parse_latlon_pair(pair) ==
    With(ReplaceChars(Strip(pair), {",", "-"}, " "), LAMBDA t :
    With(LatEnd(t, 0), LAMBDA a :
    With(SpanWhile(t, a, Whitespace, Len(t)), LAMBDA w :
    With(SplitWs(t), LAMBDA toks :
        IF a # -1 /\ LonEnd(t, a + w) = Len(t)
        THEN PointOf(Slice(t, 0, a), Slice(t, a + w, Len(t)))
        ELSE IF a # -1 /\ LonEnd(t, a) # -1
        THEN PointOf(Slice(t, 0, a), Slice(t, a, LonEnd(t, a)))
        ELSE IF Len(toks) >= 2 /\ LatEnd(toks[1], 0) # -1 /\ LonEnd(toks[2], 0) # -1
        THEN PointOf(toks[1], toks[2])
        ELSE Raises("ValueError")))))

\* the first match of (\d{4,6}[NS])\s*(\d{5,7}[EW]) in t as a point, <<>> when
\* there is none: what parse_multi_latlon_seq finds in one link of a chain
SearchPair(t) ==
    With({p \in 0..(Len(t) - 1) :
            With(SpanWhile(t, p, Digit, Len(t)), LAMBDA d :
                /\ d >= 4
                /\ At(t, p + d) \in {"N", "S"}
                /\ LonEnd(t, p + d + 1 + SpanWhile(t, p + d + 1, Whitespace, Len(t))) # -1)},
         LAMBDA at :
        IF at = {} THEN <<>>
        ELSE With(MinOf(at), LAMBDA p :
             With(SpanWhile(t, p, Digit, Len(t)), LAMBDA d :
             With(p + d + 1 + SpanWhile(t, p + d + 1, Whitespace, Len(t)), LAMBDA lon :
             With(PointOf(Slice(t, p + Max(d - 6, 0), p + d + 1),
                          Slice(t, lon, LonEnd(t, lon))), LAMBDA pt :
                 IF pt.raised THEN <<>> ELSE <<pt.val>>)))))


\* A clause-E text is a sequence of lines and a line a sequence of phrases: a
\* phrase is the text one of the patterns of scripts/geo.py matches as a whole
\* (kind circle, sector, ellipse, arc), a keyword with a colon that a pattern
\* anchors on (kind area, line), a chain of coordinates (kind coords), the
\* number and dot that open a sub-area (kind marker), a full stop followed by
\* white space (kind stop), or other words.
\* dist is the distance text of the phrase, pts the coordinate texts in it in
\* the order they are written, az its azimuths.
Phrase(kind, dist, pts, az) == [kind |-> kind, dist |-> dist, pts |-> pts, az |-> az]
Words == Phrase("words", "", <<>>, <<>>)
Marker == Phrase("marker", "", <<>>, <<>>)

RECURSIVE Concat(_)
\* the sequences of a sequence, joined
Concat(ss) == IF ss = <<>> THEN <<>> ELSE Head(ss) \o Concat(Tail(ss))

\* the outcomes of several steps run one after the other: what the first one
\* that raises raises, else the values of all
Collect(outs) ==
    With({i \in 1..Len(outs) : outs[i].raised}, LAMBDA bad :
        IF bad # {} THEN Raises(outs[MinOf(bad)].err)
        ELSE Returns([i \in 1..Len(outs) |-> outs[i].val]))

\* e_text.upper().replace("\n", " ").strip(): the lines of the text as one line
FlattenLines(text) == IF text = <<>> THEN <<>> ELSE <<Concat(text)>>

\* the i-th smallest element of a set of numbers
Nth(S, i) == CHOOSE x \in S : Cardinality({y \in S : y < x}) = i - 1

\* parse_subareas(text): the text after each line-opening marker, up to the
\* next one; the whole text when no line opens with a marker
parse_subareas(text) ==
    LET opens == {l \in 1..Len(text) : text[l] # <<>> /\ text[l][1].kind = "marker"}
        upto(l) == MinOf({m \in opens \cup {Len(text) + 1} : m > l}) - 1
    IN IF opens = {} THEN <<text>>
       ELSE [i \in 1..Cardinality(opens) |->
                LET l == Nth(opens, i)
                IN <<Tail(text[l])>> \o SubSeq(text, l + 1, upto(l))]

\* parse_multi_latlon_seq over phrases: the points of their coordinate texts
\* that the pattern finds, in the order of the text
CoordsIn(phrases) ==
    Concat([i \in 1..Len(phrases) |->
        Concat([j \in 1..Len(phrases[i].pts) |-> SearchPair(phrases[i].pts[j])])])

\* NotamGeometryPart(kind, geom, altitude_from, altitude_to, index, raw)
NotamGeometryPart(kind, geom, f_alt, g_alt, idx, raw) ==
    [kind |-> kind, geom |-> geom, altitude_from |-> f_alt, altitude_to |-> g_alt,
     index |-> idx, raw |-> raw]

\* the body of the loops over CIRCLE_RE, SECTOR_RE, ELLIPSE_RE and ARC_RE for
\* one match ph: the part, or the ValueError of a distance or of a coordinate
ShapePart(ph, f_alt, g_alt, idx) ==
    With(IF ph.kind \in {"circle", "sector"} THEN m_from_text(ph.dist)
         ELSE ParseFloat(ph.dist), LAMBDA radius :
    With(Collect([j \in 1..Len(ph.pts) |-> parse_latlon_pair(ph.pts[j])]), LAMBDA points :
    With(IF ph.kind = "sector" THEN build_sector(ph.az[1], ph.az[2], SectorN).val
         ELSE <<>>, LAMBDA ring :
    With([circle |-> "CIRCLE", sector |-> "SECTOR", ellipse |-> "ELLIPSE",
          arc |-> "ARC"], LAMBDA kinds :
        IF radius.raised \/ points.raised THEN Raises("ValueError")
        ELSE Returns(NotamGeometryPart(kinds[ph.kind],
                [type |-> "Polygon", shape |-> ph.kind, at |-> points.val,
                 size |-> radius.val, ring |-> ring],
                f_alt, g_alt, idx, ph))))))

\* the phrases that follow the first phrase of the given kind whose pattern,
\* ending in (.+)$, matches: the keyword must stand in the last line of the
\* sub-area, or end the line before it; <<>> when there is no match
AfterKeyword(sub, kind) ==
    LET last == Len(sub)
        inLast == {k \in 1..Len(sub[last]) :
                      sub[last][k].kind = kind /\ k < Len(sub[last])}
        before == last > 1 /\ sub[last - 1] # <<>> /\ sub[last] # <<>>
                  /\ sub[last - 1][Len(sub[last - 1])].kind = kind
    IN IF sub = <<>> THEN <<>>
       ELSE IF before THEN sub[last]
       ELSE IF inLast # {} THEN SubSeq(sub[last], MinOf(inLast) + 1, Len(sub[last]))
       ELSE <<>>

\* the first phrase of the given kind that AfterKeyword matched
KeywordOf(sub, kind) ==
    LET last == Len(sub)
        prev == sub[last - 1]
    IN IF last > 1 /\ prev # <<>> /\ sub[last] # <<>> /\ prev[Len(prev)].kind = kind
       THEN prev[Len(prev)]
       ELSE sub[last][MinOf({k \in 1..Len(sub[last]) : sub[last][k].kind = kind})]

\* re.split(r"\.\s|F\)|G\)", text, maxsplit=1)[0]: the phrases before the
\* first full stop
UpToStop(phrases) ==
    LET stops == {k \in 1..Len(phrases) : phrases[k].kind = "stop"}
    IN IF stops = {} THEN phrases ELSE SubSeq(phrases, 1, MinOf(stops) - 1)

\* the corridor step of build_parts_from_E: no part, one part, or the
\* ValueError of float() on the width
CorridorPart(sub, f_alt, g_alt, idx) ==
    With(AfterKeyword(sub, "line"), LAMBDA rest :
        IF rest = <<>> THEN <<>>
        ELSE With(KeywordOf(sub, "line"), LAMBDA ph :
             With(CoordsIn(UpToStop(rest)), LAMBDA pts :
                 IF ParseFloat(ph.dist).raised THEN <<Raises("ValueError")>>
                 ELSE IF Len(pts) >= 2
                 THEN <<Returns(NotamGeometryPart("LINE_CORRIDOR",
                         [type |-> "Polygon", shape |-> "line", at |-> pts,
                          size |-> ph.dist, ring |-> <<>>],
                         f_alt, g_alt, idx, ph))>>
                 ELSE <<>>)))

\* the coordinate lists build_parts_from_E makes polygons of: the chain after
\* AREA, else every coordinate of the sub-area when no other shape was found
AreaCoords(sub, found) ==
    With(CoordsIn(AfterKeyword(sub, "area")), LAMBDA chain :
    With(CoordsIn(Concat(sub)), LAMBDA dense :
        IF Len(chain) >= MinVertices THEN <<chain>>
        ELSE IF Len(dense) >= MinVertices /\ found = 0 THEN <<dense>>
        ELSE <<>>))

\* the body of the loop of build_parts_from_E for the sub-area sub of index idx
SubareaParts(sub, idx, f_alt, g_alt, strict) ==
    With(Concat(sub), LAMBDA phrases :
    With(<<"circle", "sector", "ellipse", "arc">>, LAMBDA kinds :
    With(Concat([k \in 1..Len(kinds) |->
            With(SelectSeq(phrases, LAMBDA ph : ph.kind = kinds[k]), LAMBDA at :
                [i \in 1..Len(at) |-> ShapePart(at[i], f_alt, g_alt, idx)])]),
         LAMBDA matched :
    With(Collect(matched \o CorridorPart(sub, f_alt, g_alt, idx)), LAMBDA shapes :
        IF shapes.raised THEN shapes
        ELSE With(AreaCoords(sub, Len(shapes.val)), LAMBDA area_coords :
             With(Collect([i \in 1..Len(area_coords) |->
                     With(build_polygon(area_coords[i], strict), LAMBDA p :
                         IF p.raised THEN p
                         ELSE Returns(NotamGeometryPart("POLYGON", p.val, f_alt, g_alt,
                                                        idx, "AREA")))]),
                  LAMBDA polygons :
                 IF polygons.raised THEN polygons
                 ELSE Returns(shapes.val \o polygons.val)))))))

\* build_parts_from_E with every part tagged with the index of the first
\* sub-area
build_parts_from_E_mut(e_text, f_alt, g_alt, strict) ==
    With(parse_subareas(e_text), LAMBDA subareas :
    With(Collect([i \in 1..Len(subareas) |->
                    SubareaParts(subareas[i], 1, f_alt, g_alt, strict)]), LAMBDA each :
        IF each.raised THEN each ELSE Returns(Concat(each.val))))

\* build_parts_from_E(e_text, f_alt, g_alt): the parts of all sub-areas, or the
\* first error of a match
build_parts_from_E(e_text, f_alt, g_alt, strict) ==
    With(parse_subareas(e_text), LAMBDA subareas :
    With(Collect([i \in 1..Len(subareas) |->
                    SubareaParts(subareas[i], i, f_alt, g_alt, strict)]), LAMBDA each :
        IF each.raised THEN each ELSE Returns(Concat(each.val))))

\* ------------------------------------------------- _geo.py

\* The cascade Notam.from_str runs is the copy of src/_geo.py. Its patterns
\* know three phrases more: "WI <dist> RADIUS CENTERED ON PSN" (kind
\* centered), "WI <dist> RADIUS CENTERED PSNS" (kind psns) and a position
\* written hemisphere first (kind position).

\* dms_token_to_deg(token) of _geo.py: the signed angle in seconds of arc, or
\* ValueError; five digits are DDMM and a digit of tens of seconds
lib_dms_token_to_deg(token) ==
    With(Strip(token), LAMBDA t :
    With(Slice(t, 0, Len(t) - 1), LAMBDA num :
    With(At(t, Len(t) - 1), LAMBDA hemi :
    With(Len(t) - 1, LAMBDA k :
        IF ~(k \in 4..7 /\ IsDigitStr(num) /\ hemi \in {"N", "S", "E", "W"})
        THEN Raises("ValueError")
        ELSE With(IF k = 7 THEN 3 ELSE 2, LAMBDA w :
             With(ParseNat(Slice(num, 0, w)) * 3600 + ParseNat(Slice(num, w, w + 2)) * 60
                  + (IF k = 5 THEN ParseNat(Slice(num, 4, 5)) * 10
                     ELSE IF k >= 6 THEN ParseNat(Slice(num, w + 2, w + 4))
                     ELSE 0), LAMBDA deg :
                 Returns(IF hemi \in {"S", "W"} THEN 0 - deg ELSE deg)))))))

\* the point (lon, lat) of two tokens, or the ValueError of dms_token_to_deg
LibPointOf(lat_tok, lon_tok) ==
    With(lib_dms_token_to_deg(lat_tok), LAMBDA lat :
    With(lib_dms_token_to_deg(lon_tok), LAMBDA lon :
        IF lat.raised \/ lon.raised THEN Raises("ValueError")
        ELSE Returns(<<lon.val, lat.val>>)))

\* parse_latlon_pair(pair) of _geo.py: the hemisphere-first form
\* ([NS])(\d{4,6})([EW])(\d{5,7}) first, then the forms of scripts/geo.py
lib_parse_latlon_pair(pair) ==
    With(ReplaceChars(Strip(pair), {",", "-"}, " "), LAMBDA t :
    With(SpanWhile(t, 1, Digit, Len(t)), LAMBDA d :
    With(SpanWhile(t, 2 + d, Digit, Len(t)), LAMBDA d2 :
    With(LatEnd(t, 0), LAMBDA a :
    With(SpanWhile(t, a, Whitespace, Len(t)), LAMBDA w :
    With(SplitWs(t), LAMBDA toks :
        IF /\ At(t, 0) \in {"N", "S"} /\ d \in 4..6
           /\ At(t, 1 + d) \in {"E", "W"} /\ d2 \in 5..7
           /\ 2 + d + d2 = Len(t)
        THEN LibPointOf(Slice(t, 1, 1 + d) \o At(t, 0),
                        Slice(t, 2 + d, Len(t)) \o At(t, 1 + d))
        ELSE IF a # -1 /\ LonEnd(t, a + w) = Len(t)
        THEN LibPointOf(Slice(t, 0, a), Slice(t, a + w, Len(t)))
        ELSE IF a # -1 /\ LonEnd(t, a) # -1
        THEN LibPointOf(Slice(t, 0, a), Slice(t, a, LonEnd(t, a)))
        ELSE IF Len(toks) >= 2 /\ LatEnd(toks[1], 0) # -1 /\ LonEnd(toks[2], 0) # -1
        THEN LibPointOf(toks[1], toks[2])
        ELSE Raises("ValueError")))))))

\* parse_multi_latlon_seq(text) of _geo.py over phrases. The text loses its
\* white space and is split at the dashes, and a piece counts when a
\* coordinate opens it: of a chain every link but the first, which is glued to
\* the text before the chain, and the first one too when the chain opens the
\* text; of an arc that opens the text its start point. The outcome of each
\* coordinate, in the order of the text.
lib_parse_multi_latlon_seq(phrases) ==
    Concat([i \in 1..Len(phrases) |->
        With(phrases[i], LAMBDA ph :
            IF ph.kind = "coords"
            THEN With(SelectSeq([j \in 1..Len(ph.pts) |-> <<j, ph.pts[j]>>],
                                LAMBDA x : x[1] >= 2 \/ i = 1), LAMBDA heads :
                     [j \in 1..Len(heads) |->
                         With(heads[j][2], LAMBDA tok :
                             LibPointOf(Slice(tok, 0, LatEnd(tok, 0)),
                                        Slice(tok, LatEnd(tok, 0),
                                              LonEnd(tok, LatEnd(tok, 0)))))])
            ELSE IF ph.kind = "arc" /\ i = 1
            THEN With(ph.pts[1], LAMBDA tok :
                     <<LibPointOf(Slice(tok, 0, LatEnd(tok, 0)),
                                  Slice(tok, LatEnd(tok, 0),
                                        LonEnd(tok, LatEnd(tok, 0))))>>)
            ELSE <<>>)])

\* build_polygon(coords) of _geo.py: the ring, closed if needed
lib_build_polygon(coords, strict) ==
    IF Len(coords) < MinVertices
    THEN Raises("ValueError: Polygon requires at least 3 points")
    ELSE ShapelyPolygon(IF coords[1] # coords[Len(coords)]
                        THEN Append(coords, coords[1]) ELSE coords, strict)

\* the number [0-9.]+ that opens the distance of a phrase, and the unit after it
DistNumber(dist) == Slice(dist, 0, SpanWhile(dist, 0, Digit \cup {"."}, Len(dist)))
DistUnit(dist) ==
    ToUpper(Strip(Slice(dist, SpanWhile(dist, 0, Digit \cup {"."}, Len(dist)), Len(dist))))

\* radius_val = float(m.group(1)) and the conversion by the unit that follow
\* a match of ALT_CIRCLE_RE or MULTI_PSN_RADIUS_RE: the radius, or ValueError
RadiusOf(dist) ==
    With(DistNumber(dist), LAMBDA num :
        IF ParseFloat(num).raised THEN Raises("ValueError")
        ELSE Returns([num |-> num, unit |-> DistUnit(dist),
                      mm |-> DecimalMilli(num)
                             * (CASE DistUnit(dist) = "KM" -> 1000
                                  [] DistUnit(dist) = "NM" -> 1852 [] OTHER -> 1)]))

\* a CIRCLE part around the position text psn with the radius of the phrase
\* head, or the ValueError of the radius or of the position
PsnCircle(head, psn, raw, f_alt, g_alt, idx) ==
    With(RadiusOf(head.dist), LAMBDA radius :
    With(lib_parse_latlon_pair(psn), LAMBDA center :
        IF radius.raised \/ center.raised THEN Raises("ValueError")
        ELSE Returns(NotamGeometryPart("CIRCLE",
                [type |-> "Polygon", shape |-> "circle", at |-> <<center.val>>,
                 size |-> radius.val, ring |-> <<>>],
                f_alt, g_alt, idx, raw))))

\* the loop over ALT_CIRCLE_RE: a circle for each phrase of a radius that a
\* position follows, on the same line or on the next
AltCircleParts(phrases, f_alt, g_alt, idx) ==
    With(SelectSeq([i \in 1..(Len(phrases) - 1) |-> i],
                   LAMBDA i : /\ phrases[i].kind \in {"centered", "psns"}
                              /\ phrases[i + 1].kind = "position"), LAMBDA at :
        [k \in 1..Len(at) |->
            PsnCircle(phrases[at[k]], phrases[at[k] + 1].pts[1], phrases[at[k]],
                      f_alt, g_alt, idx)])

\* the step of MULTI_PSN_RADIUS_RE: with the radius of the first phrase
\* "... RADIUS CENTERED PSNS", a circle for each line that a position opens; a
\* position that does not parse is passed over
MultiPsnParts(sub, f_alt, g_alt, idx) ==
    With(SelectSeq(Concat(sub), LAMBDA ph : ph.kind = "psns"), LAMBDA heads :
        IF heads = <<>> THEN <<>>
        ELSE IF RadiusOf(heads[1].dist).raised THEN <<Raises("ValueError")>>
        ELSE With(SelectSeq(sub, LAMBDA ln : ln # <<>> /\ ln[1].kind = "position"),
                  LAMBDA lines :
             With(SelectSeq(lines, LAMBDA ln : ~lib_parse_latlon_pair(ln[1].pts[1]).raised),
                  LAMBDA good :
                 [k \in 1..Len(good) |->
                     PsnCircle(heads[1], good[k][1].pts[1], good[k][1],
                               f_alt, g_alt, idx)])))

\* SECTOR_RE of _geo.py takes a radius in KM or M only
LibSectorMatches(ph) == DistUnit(ph.dist) \in {"KM", "M"}

\* the body of the loops over CIRCLE_RE, SECTOR_RE and ELLIPSE_RE of _geo.py
\* for one match ph
LibShapePart(ph, f_alt, g_alt, idx) ==
    With(IF ph.kind \in {"circle", "sector"} THEN m_from_text(ph.dist)
         ELSE ParseFloat(ph.dist), LAMBDA radius :
    With(Collect([j \in 1..Len(ph.pts) |-> lib_parse_latlon_pair(ph.pts[j])]),
         LAMBDA points :
    With(IF ph.kind = "sector" THEN build_sector(ph.az[1], ph.az[2], SectorN).val
         ELSE <<>>, LAMBDA ring :
    With([circle |-> "CIRCLE", sector |-> "SECTOR", ellipse |-> "ELLIPSE"],
         LAMBDA kinds :
        IF radius.raised \/ points.raised THEN Raises("ValueError")
        ELSE Returns(NotamGeometryPart(kinds[ph.kind],
                [type |-> "Polygon", shape |-> ph.kind, at |-> points.val,
                 size |-> radius.val, ring |-> ring],
                f_alt, g_alt, idx, ph))))))

\* the corridor step of _geo.py: the points are those of the whole rest of
\* the line after the keyword
LibCorridorPart(sub, f_alt, g_alt, idx) ==
    With(AfterKeyword(sub, "line"), LAMBDA rest :
        IF rest = <<>> THEN <<>>
        ELSE With(KeywordOf(sub, "line"), LAMBDA ph :
             With(Collect(lib_parse_multi_latlon_seq(rest)), LAMBDA pts :
                 IF ParseFloat(ph.dist).raised \/ pts.raised THEN <<Raises("ValueError")>>
                 ELSE IF Len(pts.val) >= 2
                 THEN <<Returns(NotamGeometryPart("LINE_CORRIDOR",
                         [type |-> "Polygon", shape |-> "line", at |-> pts.val,
                          size |-> ph.dist, ring |-> <<>>],
                         f_alt, g_alt, idx, ph))>>
                 ELSE <<>>)))

\* the coordinate lists _geo.py makes polygons of, or the ValueError of a
\* coordinate
LibAreaCoords(sub, found) ==
    With(Collect(lib_parse_multi_latlon_seq(AfterKeyword(sub, "area"))), LAMBDA chain :
    With(Collect(lib_parse_multi_latlon_seq(Concat(sub))), LAMBDA dense :
        IF chain.raised THEN chain
        ELSE IF Len(chain.val) >= MinVertices THEN Returns(<<chain.val>>)
        ELSE IF dense.raised THEN dense
        ELSE IF Len(dense.val) >= MinVertices /\ found = 0 THEN Returns(<<dense.val>>)
        ELSE Returns(<<>>)))

\* the body of the loop of build_parts_from_E of _geo.py for one sub-area
LibSubareaParts(sub, idx, f_alt, g_alt, strict) ==
    With(Concat(sub), LAMBDA phrases :
    With(SelectSeq(phrases, LAMBDA ph : ph.kind = "circle"), LAMBDA circles :
    With(SelectSeq(phrases, LAMBDA ph : ph.kind = "sector" /\ LibSectorMatches(ph)),
         LAMBDA sectors :
    With(SelectSeq(phrases, LAMBDA ph : ph.kind = "ellipse"), LAMBDA ellipses :
    With(Collect([i \in 1..Len(circles) |-> LibShapePart(circles[i], f_alt, g_alt, idx)]
                 \o AltCircleParts(phrases, f_alt, g_alt, idx)
                 \o MultiPsnParts(sub, f_alt, g_alt, idx)
                 \o [i \in 1..Len(sectors) |-> LibShapePart(sectors[i], f_alt, g_alt, idx)]
                 \o [i \in 1..Len(ellipses) |->
                        LibShapePart(ellipses[i], f_alt, g_alt, idx)]
                 \o LibCorridorPart(sub, f_alt, g_alt, idx)), LAMBDA shapes :
        IF shapes.raised THEN shapes
        ELSE With(LibAreaCoords(sub, Len(shapes.val)), LAMBDA area_coords :
            IF area_coords.raised THEN area_coords
            ELSE With(Collect([i \in 1..Len(area_coords.val) |->
                         With(lib_build_polygon(area_coords.val[i], strict), LAMBDA p :
                             IF p.raised THEN p
                             ELSE Returns(NotamGeometryPart("POLYGON", p.val, f_alt,
                                                            g_alt, idx, "AREA")))]),
                      LAMBDA polygons :
                 IF polygons.raised THEN polygons
                 ELSE Returns(shapes.val \o polygons.val))))))))

\* build_parts_from_E(e_text, f_alt, g_alt) of _geo.py: the parts of all
\* sub-areas, or the first error of a match
lib_build_parts_from_E(e_text, f_alt, g_alt, strict) ==
    With(parse_subareas(e_text), LAMBDA subareas :
    With(Collect([i \in 1..Len(subareas) |->
                    LibSubareaParts(subareas[i], i, f_alt, g_alt, strict)]), LAMBDA each :
        IF each.raised THEN each ELSE Returns(Concat(each.val))))

\* ------------------------------------------------- NOTAM blocks

\* A block of a file: header is the first line that starts with "(Q" (None
\* when the block has none), fields the clauses in the order of the block,
\* each with its letter and the text up to the next clause. The text of clause
\* E is a sequence of lines of phrases, the other texts are strings.
Block(head_line, clauses) == [blank |-> FALSE, header |-> head_line, fields |-> clauses]
Field(code, content) == [code |-> code, text |-> content]

\* Q_HEADER_RE.match(line): the four digits of the number, None when the line
\* does not match ^\(Q(\d{4})/\d+\s+NOTAM[NR]?
HeaderQid(line) ==
    With(SpanWhile(line, 2, Digit, Len(line)), LAMBDA d :
    With(SpanWhile(line, 7, Digit, Len(line)), LAMBDA k :
    With(SpanWhile(line, 7 + k, Whitespace, Len(line)), LAMBDA w :
        IF /\ StartsAt(line, 0, "(Q")
           /\ d >= 4
           /\ At(line, 6) = "/"
           /\ k >= 1
           /\ w >= 1
           /\ StartsAt(line, 7 + k + w, "NOTAM")
        THEN Some(Slice(line, 2, 6))
        ELSE None)))

\* extract_field(block, code): the text of the first clause of that letter,
\* stripped and without the parenthesis that closes the block; None when the
\* block has no such clause
extract_field(block, code) ==
    With({i \in 1..Len(block.fields) : block.fields[i].code = code}, LAMBDA at :
        IF at = {} THEN None
        ELSE IF code = "E" THEN Some(block.fields[MinOf(at)].text)
        ELSE With(Strip(block.fields[MinOf(at)].text), LAMBDA content :
            IF content # "" /\ At(content, Len(content) - 1) = ")"
               /\ CountChar(content, "(") = 0
            THEN Some(Strip(Slice(content, 0, Len(content) - 1)))
            ELSE Some(content)))

\* x or default, for the optional text x
OrElse(x, default) == IF x = None \/ x[1] = "" THEN default ELSE x[1]

\* parse_altitude_pair with the defaults of F and G exchanged
parse_altitude_pair_mut(block) ==
    <<parse_alt_text(OrElse(extract_field(block, "F"), "UNL")),
      parse_alt_text(OrElse(extract_field(block, "G"), "SFC"))>>
\* parse_altitude_pair(block): the descriptors of F and G
parse_altitude_pair(block) ==
    <<parse_alt_text(OrElse(extract_field(block, "F"), "SFC")),
      parse_alt_text(OrElse(extract_field(block, "G"), "UNL"))>>

\* NotamFeature(qid, icao, schedule, effective, text, parts)
NotamFeature(qid, icao, schedule, effective, text, parts) ==
    [qid |-> qid, icao |-> icao, schedule |-> schedule, effective |-> effective,
     text |-> text, parts |-> parts]

\* parse_notam_block(block): the feature, None for a block without a header,
\* or what build_parts_from_E raises
parse_notam_block(block, strict) ==
    With(IF block.header = None THEN None ELSE HeaderQid(Strip(block.header[1])),
         LAMBDA qid :
        IF qid = None THEN Returns(None)
        ELSE With(extract_field(block, "D"), LAMBDA schedule :
             With(extract_field(block, "E"), LAMBDA e :
             With(IF e = None THEN <<>> ELSE e[1], LAMBDA e_text :
             With(parse_altitude_pair(block), LAMBDA alt :
             With(build_parts_from_E(e_text, alt[1], alt[2], strict), LAMBDA parts :
             With(IF schedule = None \/ schedule[1] = "" THEN None
                  ELSE Some(schedule[1]), LAMBDA d :
                 IF parts.raised THEN parts
                 ELSE Returns(Some(NotamFeature(qid[1],
                          OrElse(extract_field(block, "A"), ""), d,
                          [B |-> OrElse(extract_field(block, "B"), ""),
                           C |-> OrElse(extract_field(block, "C"), ""),
                           D |-> d],
                          e_text, parts.val))))))))))

\* unary_union(geoms) of geometries that lie apart from each other: the one
\* geometry, or the collection of them
unary_union(geoms) ==
    IF Len(geoms) = 1 THEN geoms[1]
    ELSE [type |-> IF \A i \in 1..Len(geoms) : geoms[i].type = "Polygon"
                   THEN "MultiPolygon" ELSE "GeometryCollection",
          geoms |-> geoms]

\* notams_to_geojson(features): one feature for every NOTAM that has parts
notams_to_geojson(features) ==
    With(SelectSeq(features, LAMBDA f : f.parts # <<>>), LAMBDA kept :
        [type |-> "FeatureCollection",
         features |-> [i \in 1..Len(kept) |->
            With(kept[i], LAMBDA nf :
                [type |-> "Feature",
                 geometry |-> unary_union([j \in 1..Len(nf.parts) |-> nf.parts[j].geom]),
                 properties |->
                    [qid |-> nf.qid, icao |-> nf.icao,
                     effective |-> nf.effective, schedule |-> nf.schedule,
                     text |-> nf.text,
                     parts |-> [j \in 1..Len(nf.parts) |->
                        [index |-> nf.parts[j].index, kind |-> nf.parts[j].kind,
                         alt_from |-> nf.parts[j].altitude_from,
                         alt_to |-> nf.parts[j].altitude_to,
                         raw |-> nf.parts[j].raw]]]])]])

\* A file is a sequence of chunks: blank lines, or the lines from one line that
\* starts with "(Q" (or from the top of the file) up to the next such line
BlankLines == [blank |-> TRUE, header |-> None, fields |-> <<>>]
\* the line opens a block: line.strip().startswith("(Q") and Q_HEADER_RE.match
OpensBlock(chunk) == chunk.header # None /\ HeaderQid(Strip(chunk.header[1])) # None
\* split_notams(raw): the blocks of the file; blank lines are dropped, and
\* lines that open no block belong to the block before them
split_notams(raw) ==
    With(SelectSeq(raw, LAMBDA chunk : ~chunk.blank), LAMBDA chunks :
    With({i \in 1..Len(chunks) : i = 1 \/ OpensBlock(chunks[i])}, LAMBDA heads :
        [k \in 1..Cardinality(heads) |->
            With(Nth(heads, k), LAMBDA i :
            With(MinOf({j \in heads \cup {Len(chunks) + 1} : j > i}) - 1, LAMBDA upto :
            With({j \in i..upto : chunks[j].header # None}, LAMBDA headed :
                Block(IF headed = {} THEN None ELSE chunks[MinOf(headed)].header,
                      Concat([j \in 1..(upto - i + 1) |-> chunks[i + j - 1].fields])))))]))

\* parse_notam_file_text that stops at the first block that raises
parse_notam_file_text_mut(raw, strict) ==
    With(split_notams(raw), LAMBDA blocks :
    With([i \in 1..Len(blocks) |-> parse_notam_block(blocks[i], strict)], LAMBDA each :
    With({i \in 1..Len(blocks) : each[i].raised}, LAMBDA bad :
    With(IF bad = {} THEN Len(blocks) ELSE MinOf(bad) - 1, LAMBDA upto :
    With({i \in 1..upto : each[i].val # None}, LAMBDA done :
        notams_to_geojson([k \in 1..Cardinality(done) |-> each[Nth(done, k)].val[1]]))))))
\* parse_notam_file_text(raw): the features of the blocks that parse_notam_block
\* returns a feature for
parse_notam_file_text(raw, strict) ==
    With(split_notams(raw), LAMBDA blocks :
    With([i \in 1..Len(blocks) |-> parse_notam_block(blocks[i], strict)], LAMBDA each :
    With({i \in 1..Len(blocks) : ~each[i].raised /\ each[i].val # None}, LAMBDA done :
        notams_to_geojson([k \in 1..Cardinality(done) |-> each[Nth(done, k)].val[1]]))))

\* ------------------------------------------------- build_geometry

\* MAX_CIRCLE_RADIUS_NM
MaxCircleRadiusNm == 200

\* StubNotam(area, location, body), or a record of pynotam with these
\* attributes: text is what body, decoded() or the string itself gives, area
\* the mapping (None when there is none), location the list of codes
StubNotam(area, location, body) == [area |-> area, location |-> location, text |-> body]
\* a mapping area of the record: lat and long are strings, None when the key is
\* missing or holds no string; radius a number of nautical miles, or None
Area(lat, long, radius) == [lat |-> lat, long |-> long, radius |-> radius]

\* kind.lower() of the kinds of parts
LowerKind == [CIRCLE |-> "circle", SECTOR |-> "sector", ELLIPSE |-> "ellipse",
              ARC |-> "arc", LINE_CORRIDOR |-> "line_corridor", POLYGON |-> "polygon"]

\* the first fallback of build_geometry: the geometries of the attribute area
AreaGeoms(area) ==
    IF area = None \/ area[1].lat = None \/ area[1].long = None THEN <<>>
    ELSE With(dms_token_to_deg(area[1].lat[1]), LAMBDA lat :
         With(dms_token_to_deg(area[1].long[1]), LAMBDA lon :
         With(area[1].radius, LAMBDA radius :
             IF lat.raised \/ lon.raised THEN <<>>
             ELSE IF radius # None /\ radius[1] < MaxCircleRadiusNm
             THEN <<[type |-> "Polygon", shape |-> "circle",
                     at |-> <<<<lon.val, lat.val>>>>,
                     size |-> [num |-> radius[1], unit |-> "NM"], ring |-> <<>>]>>
             ELSE <<[type |-> "Point", at |-> <<lon.val, lat.val>>]>>)))

\* the second fallback: the point of the airport of the first location; an
\* airport whose lon or lat is no number gives none
AirportGeoms(locs, airport_locations) ==
    IF locs = <<>> \/ locs[1] \notin DOMAIN airport_locations THEN <<>>
    ELSE LET ap == airport_locations[locs[1]]
         IN IF ap.lon = None \/ ap.lat = None THEN <<>>
            ELSE <<[type |-> "Point", at |-> <<ap.lon[1], ap.lat[1]>>]>>

\* build_geometry with the area of the record taken before the text
build_geometry_mut(notam, airport_locations, strict) ==
    With(FlattenLines(notam.text), LAMBDA e_text :
    With(build_parts_from_E(e_text, <<>>, <<>>, strict), LAMBDA parts :
        IF parts.raised THEN parts
        ELSE With([i \in 1..Len(parts.val) |-> parts.val[i].geom], LAMBDA text_geoms :
             With(AreaGeoms(notam.area), LAMBDA area_geoms :
             With(IF area_geoms # <<>> THEN area_geoms
                  ELSE IF text_geoms # <<>> THEN text_geoms
                  ELSE AirportGeoms(notam.location, airport_locations), LAMBDA geoms :
                 IF geoms = <<>> THEN Returns(None)
                 ELSE Returns(Some([geometry |-> unary_union(geoms),
                                    meta |-> IF parts.val # <<>>
                                             THEN Some([shape |->
                                                        LowerKind[parts.val[1].kind]])
                                             ELSE None])))))))
\* build_geometry(notam, airport_locations): the mapping of the geometry with
\* its meta entry, None when no source gave a geometry, or what
\* build_parts_from_E raises
build_geometry(notam, airport_locations, strict) ==
    With(FlattenLines(notam.text), LAMBDA e_text :
    With(build_parts_from_E(e_text, <<>>, <<>>, strict), LAMBDA parts :
        IF parts.raised THEN parts
        ELSE With([i \in 1..Len(parts.val) |-> parts.val[i].geom], LAMBDA text_geoms :
             With(AreaGeoms(notam.area), LAMBDA area_geoms :
             With(IF text_geoms # <<>> THEN text_geoms
                  ELSE IF area_geoms # <<>> THEN area_geoms
                  ELSE AirportGeoms(notam.location, airport_locations), LAMBDA geoms :
                 IF geoms = <<>> THEN Returns(None)
                 ELSE Returns(Some([geometry |-> unary_union(geoms),
                                    meta |-> IF parts.val # <<>>
                                             THEN Some([shape |->
                                                        LowerKind[parts.val[1].kind]])
                                             ELSE None])))))))

\* ------------------------------------------------- calls of scripts/geo.py

\* a call: the function called, its arguments, and whether the shapely that is
\* installed refuses a ring of fewer than four coordinates
Call(fn, args, strict) == [fn |-> fn, args |-> args, strict |-> strict]

\* the digits of the tokens handed to dms_token_to_deg
TokenDigits == {"123", "0000", "0030", "5958", "9000", "9999", "03012", "18000",
                "18001", "595835", "900001", "0301229", "1800000", "3600000",
                "12345678", "59A8"}
Tokens == {d \o h : d \in TokenDigits, h \in {"N", "S", "E", "W", "X"}}

\* the points of the rings handed to build_polygon, as <<lon, lat>>
PtA == <<0, 0>>
PtB == <<3600, 0>>
PtC == <<3600, 3600>>
Pts == {PtA, PtB, PtC}
\* the longest ring handed to build_polygon
MaxCoords == 4
Rings == UNION {[1..k -> Pts] : k \in 0..MaxCoords}

\* the azimuths handed to build_sector, in degrees
Azimuths == {0, 60, 90, 144, 300, 321, 359, 360}

DmsCalls == {Call("dms_token_to_deg", <<t>>, FALSE) : t \in Tokens}
PolygonCalls == {Call("build_polygon", <<r>>, b) : r \in Rings, b \in BOOLEAN}
SectorCalls == {Call("build_sector", <<a, b>>, FALSE) : a \in Azimuths, b \in Azimuths}

\* the phrases of the clause-E texts of the model
Circle1 == Phrase("circle", "1KM", <<"585106N0304315E">>, <<>>)
Circle2 == Phrase("circle", "2NM", <<"595106N 0314315E">>, <<>>)
BadRadius == Phrase("circle", "1.2.3KM", <<"575106N0304315E">>, <<>>)
BadCentre == Phrase("circle", "1KM", <<"12N34E">>, <<>>)
Sector == Phrase("sector", "8KM", <<"610424N0331023E">>, <<321, 144>>)
Ellipse == Phrase("ellipse", "2.8", <<"584622N0304438E">>, <<141>>)
Arc == Phrase("arc", "30", <<"622044N1295822E", "620536N1294624E", "614952N1295408E">>, <<>>)
LineOf(width) == Phrase("line", width, <<>>, <<>>)
AreaKw == Phrase("area", "", <<>>, <<>>)
Stop == Phrase("stop", "", <<>>, <<>>)
Chain(links) == Phrase("coords", "", links, <<>>)
\* ATS route segments: the codes of the waypoints of each
Route(codes) == Phrase("route", "", codes, <<>>)
West == <<"5900N03000E", "6000N03000E", "6000N03100E">>
East == <<"6000N03500E", "5900N03500E", "5900N03400E">>
Same == <<"593000N0300000E", "593000N0300000E", "593000N0300000E">>
Pair == <<"595217N0304217E", "594911N0305154E">>

\* clause-E texts without a match of any pattern
BareTexts ==
    { <<>>,
      << <<Words>> >>,
      << <<Words, Chain(Pair)>> >>,
      << <<Words>>, <<Route(<<"ATKUP", "LIMUS">>)>>, <<Route(<<"KROTA", "AKATI">>)>> >> }
\* clause-E texts whose matches are all well-formed
SoundTexts ==
    { << <<Words, Circle1, Stop>> >>,
      << <<Words>>, <<Marker, Circle1, Stop>>, <<Marker, Sector, Stop>> >>,
      << <<Words>>, <<Marker, Circle1>>, <<Marker, Circle2>> >>,
      << <<Words>>, <<Marker, AreaKw, Chain(West)>>, <<Marker, AreaKw, Chain(East)>> >>,
      << <<Marker, AreaKw, Chain(West)>>, <<Marker, AreaKw, Chain(East)>> >>,
      << <<Words, AreaKw>>, <<Chain(West), Stop>> >>,
      << <<Words, AreaKw>>, <<Chain(West)>>, <<Chain(East), Stop>>, <<Words>> >>,
      << <<Words>>, <<Ellipse>> >>,
      << <<Words, AreaKw>>, <<Arc, Stop>> >>,
      << <<Words, LineOf("0.75")>>, <<Chain(Pair), Stop, Chain(West)>> >>,
      << <<Circle1, AreaKw, Chain(Pair)>> >> }
\* clause-E texts with a match that the code fails on
FaultyTexts ==
    { << <<Words>>, <<Marker, BadRadius>>, <<Marker, Circle2>> >>,
      << <<Circle1, BadCentre>> >>,
      << <<Sector, Stop, LineOf("0.7.5"), Chain(Pair)>> >>,
      << <<Circle1, Stop, AreaKw, Chain(Same)>> >> }
\* clause-E texts of coordinates without any keyword of a shape
FallbackTexts ==
    { << <<Words>>, <<Chain(West), Stop>> >>,
      << <<Words, Chain(Same), Stop>> >>,
      << <<Words>>, <<Marker, Circle1, Stop>>, <<Marker, Chain(East), Stop>> >> }
\* clause-E texts with the centre of a circle in the line of an AREA chain
OverlapTexts ==
    { << <<Words, AreaKw, Chain(Pair), Words, Circle1, Stop>> >> }
\* clause-E texts of a sector whose two bearings are equal modulo 360
FullTurnSector == Phrase("sector", "8KM", <<"610424N0331023E">>, <<0, 360>>)
TurnTexts ==
    { << <<Words, FullTurnSector, Stop>> >> }
ETexts ==
    BareTexts \cup SoundTexts \cup FaultyTexts \cup FallbackTexts \cup OverlapTexts
    \cup TurnTexts

\* the altitude texts of clauses F and G, None for a block without the clause
FTexts == {None, Some(" SFC  "), Some(" "), Some("FL100")}
GTexts == {None, Some(" 150M AMSL)"), Some(" UNL)")}
HeaderLines == {None, Some("(Q1762/25 NOTAMN"), Some("(QX NOTAM")}
BlockTexts ==
    { << <<Words>> >>,
      << <<Words>>, <<Marker, Circle1, Stop>>, <<Marker, Sector, Stop>> >>,
      << <<Words>>, <<Marker, BadRadius>>, <<Marker, Circle2>> >>,
      << <<Words, AreaKw>>, <<Chain(West), Stop>> >> }
\* the clauses of a block with the given texts of E, F and G
Clauses(e, f, g) ==
    <<Field("A", " ULLL"), Field("B", "2509100700"), Field("C", "2509111400"),
      Field("E", e)>>
    \o (IF f = None THEN <<>> ELSE <<Field("F", f[1])>>)
    \o (IF g = None THEN <<>> ELSE <<Field("G", g[1])>>)
Blocks == {Block(h, Clauses(e, f, g)) :
              h \in HeaderLines, e \in BlockTexts, f \in FTexts, g \in GTexts}

\* the chunks of the files of the model, and the longest file
FileChunks ==
    {BlankLines,
     Block(Some("(Q1762/25 NOTAMN"), Clauses(<< <<Words, AreaKw>>, <<Chain(West), Stop>> >>,
                                             None, Some(" UNL)"))),
     Block(Some("(Q1507/25 NOTAMN"),
           Clauses(<< <<Words>>, <<Marker, BadRadius>>, <<Marker, Circle2>> >>,
                   Some("SFC"), Some("150M AMSL)"))),
     Block(Some("(Q0001/25 NOTAMR"), Clauses(<< <<Words>> >>, None, None)),
     Block(Some("(QX NOTAM"), Clauses(<< <<Words, Circle1, Stop>> >>, None, None))}
MaxBlocks == 3
Files == UNION {[1..k -> FileChunks] : k \in 0..MaxBlocks}

\* the records and the airport table handed to build_geometry
Areas == {None,
          Some(Area(Some("5535N"), Some("03716E"), Some(10))),
          Some(Area(Some("5535N"), Some("03716E"), Some(200))),
          Some(Area(Some("5535N"), Some("03716E"), None)),
          Some(Area(Some("BAD"), Some("03716E"), Some(10))),
          Some(Area(None, None, None))}
Locations == {<<>>, <<"UUWW">>, <<"ZZZZ", "UUWW">>, <<"UUDD">>}
Airports == [UUWW |-> [lon |-> Some(133200), lat |-> Some(198000)],
             UUDD |-> [lon |-> None, lat |-> Some(199440)]]
GeometryTexts == BareTexts \cup FaultyTexts \cup
    { << <<Words, Circle1, Stop>> >>,
      << <<Words>>, <<Marker, AreaKw, Chain(West)>>, <<Marker, AreaKw, Chain(East)>> >>,
      << <<Words>>, <<Marker, Circle1>>, <<Marker, Circle2>> >> }
Notams == {StubNotam(a, l, e) : a \in Areas, l \in Locations, e \in GeometryTexts}

\* the distance texts handed to m_from_text
Distances == {"5KM", "0.5KM", "150M", "1NM", "2 nm", " 1.25 km ", "12.5M", "BAD", "",
              "5MILES", "5MI", "5 mi", "KM", "1.2.3KM", "5", "5KMS", "5NMI", ".5KM",
              "12FT", "KM5"}
DistanceCalls == {Call("m_from_text", <<d>>, FALSE) : d \in Distances}
\* the phrases and the clause-E texts of radii around positions
Psns(dist) == Phrase("psns", dist, <<>>, <<>>)
Centered(dist) == Phrase("centered", dist, <<>>, <<>>)
Position(psn) == Phrase("position", "", <<psn>>, <<>>)
Psn1 == Position("N314359E0341658")
Psn2 == Position("N313000E0342000")
Psn3 == Position("N3120E03430")
PsnTexts ==
    { << <<Words, Psns("3NM")>>, <<Psn1>>, <<Psn2>> >>,
      << <<Words, Psns("1KM")>>, <<Psn1>>, <<Psn2>>, <<Psn3>> >>,
      << <<Words, Psns("500M")>>, <<Psn2>> >>,
      << <<Words, Psns("3NM"), Psn1>>, <<Psn2>> >>,
      << <<Words, Centered("1KM"), Psn1, Stop>> >>,
      << <<Words>>, <<Marker, Psns("0.5NM")>>, <<Psn1>>, <<Marker, Circle1>> >>,
      << <<Words, Psns("1.2.3KM")>>, <<Psn1>>, <<Psn2>> >> }
\* the clause-E texts handed to the cascade of _geo.py
LibTexts == ETexts \cup PsnTexts
LibPartsCalls == {Call("_geo.build_parts_from_E", <<e>>, b) : e \in LibTexts, b \in BOOLEAN}
PartsCalls == {Call("build_parts_from_E", <<e>>, b) : e \in ETexts, b \in BOOLEAN}
BlockCalls == {Call("parse_notam_block", <<x>>, b) : x \in Blocks, b \in BOOLEAN}
FileCalls == {Call("parse_notam_file_text", <<f>>, b) : f \in Files, b \in BOOLEAN}
GeometryCalls == {Call("build_geometry", <<x>>, b) : x \in Notams, b \in BOOLEAN}

\* every call of the model
GeoCalls ==
    DmsCalls \cup PolygonCalls \cup SectorCalls \cup PartsCalls \cup BlockCalls
    \cup FileCalls \cup GeometryCalls \cup DistanceCalls \cup LibPartsCalls

InitGeo ==
    /\ call \in GeoCalls
    /\ ret = None
    /\ s = ""
    /\ src = Plain("geo", <<>>)
    /\ pc = "geo"
    /\ n = EmptyNotam
    /\ exc = None
    /\ geo = [raised |-> {}, parts |-> 0]
    /\ out = None
    /\ abbr = ICAO_abbr
    /\ regex = None
    /\ once = None
    /\ twice = None
    /\ wk = <<>>
    /\ ScraperIdle

\* the variables the calls of scripts/geo.py leave alone
notamVars == <<s, src, pc, n, exc, geo, out, abbr, regex, once, twice, wk, scraperVars>>

\* ret = dms_token_to_deg(token)
DmsTokenToDeg ==
    /\ ret = None
    /\ call.fn = "dms_token_to_deg"
    /\ ret' = Some(dms_token_to_deg(call.args[1]))
    /\ UNCHANGED <<call, notamVars>>

\* ret = m_from_text(val_text)
MFromText ==
    /\ ret = None
    /\ call.fn = "m_from_text"
    /\ ret' = Some(m_from_text(call.args[1]))
    /\ UNCHANGED <<call, notamVars>>

\* ret = build_polygon(coords)
BuildPolygon ==
    /\ ret = None
    /\ call.fn = "build_polygon"
    /\ ret' = Some(build_polygon(call.args[1], call.strict))
    /\ UNCHANGED <<call, notamVars>>

\* ret = build_sector(center, radius_m, az_min_deg, az_max_deg)
BuildSector ==
    /\ ret = None
    /\ call.fn = "build_sector"
    /\ ret' = Some(build_sector(call.args[1], call.args[2], SectorN))
    /\ UNCHANGED <<call, notamVars>>

\* ret = build_parts_from_E(e_text, {}, {})
BuildPartsFromE ==
    /\ ret = None
    /\ call.fn = "build_parts_from_E"
    /\ ret' = Some(build_parts_from_E(call.args[1], <<>>, <<>>, call.strict))
    /\ UNCHANGED <<call, notamVars>>

\* ret = build_parts_from_E(e_text, {}, {}) of _geo.py
LibBuildPartsFromE ==
    /\ ret = None
    /\ call.fn = "_geo.build_parts_from_E"
    /\ ret' = Some(lib_build_parts_from_E(call.args[1], <<>>, <<>>, call.strict))
    /\ UNCHANGED <<call, notamVars>>

\* ret = parse_notam_block(block)
ParseNotamBlock ==
    /\ ret = None
    /\ call.fn = "parse_notam_block"
    /\ ret' = Some(parse_notam_block(call.args[1], call.strict))
    /\ UNCHANGED <<call, notamVars>>

\* ret = parse_notam_file_text(raw)
ParseNotamFileText ==
    /\ ret = None
    /\ call.fn = "parse_notam_file_text"
    /\ ret' = Some(Returns(parse_notam_file_text(call.args[1], call.strict)))
    /\ UNCHANGED <<call, notamVars>>

\* ret = build_geometry(notam, airport_locations)
BuildGeometry ==
    /\ ret = None
    /\ call.fn = "build_geometry"
    /\ ret' = Some(build_geometry(call.args[1], Airports, call.strict))
    /\ UNCHANGED <<call, notamVars>>

NextGeo ==
    \/ DmsTokenToDeg
    \/ MFromText
    \/ BuildPolygon
    \/ BuildSector
    \/ BuildPartsFromE
    \/ LibBuildPartsFromE
    \/ ParseNotamBlock
    \/ ParseNotamFileText
    \/ BuildGeometry

SpecGeo == InitGeo /\ [][NextGeo]_vars

\* ------------------------------------------------- scripts/scraper.py

\* the file names of the site: the letter of the series, the ten digits of the
\* time of issue and "_eng.html"
Series == {"A", "B"}
Stamps == {"2602050053", "2602051200"}
FileNames == {l \o ts \o "_eng.html" : l \in Series, ts \in Stamps}
\* the longest listing
MaxListing == 2
\* what parse_html_list can find on the index page: file names, none twice
Listings ==
    {f \in UNION {[1..k -> FileNames] : k \in 0..MaxListing} :
        \A i, j \in 1..Len(f) : i # j => f[i] # f[j]}

\* f[1:11]: the time of issue in a file name
StampOf(f) == Slice(f, 1, 11)
\* the text written to docs/scrape_timestamp: YYYY-MM-DD HH:MM
FormatStamp(ts) ==
    "20" \o Slice(ts, 0, 2) \o "-" \o Slice(ts, 2, 4) \o "-" \o Slice(ts, 4, 6)
    \o " " \o Slice(ts, 6, 8) \o ":" \o Slice(ts, 8, 10)

\* the loop of main over files from position i: main returns when the time of
\* issue of a file is the stored one; else the file is fetched, and saved in
\* current/ when the site answers (fetch returns None for a request that
\* fails, and the file is skipped)
RECURSIVE DownloadAll(_, _, _, _, _)
DownloadAll(files, i, timestamp, saved_files, answers) ==
    IF i > Len(files) THEN [returned |-> FALSE, current |-> saved_files]
    ELSE IF timestamp # <<>> /\ StampOf(files[i]) = Strip(timestamp[1])
    THEN [returned |-> TRUE, current |-> saved_files]
    ELSE DownloadAll(files, i + 1, timestamp,
                     IF files[i] \in answers THEN saved_files \cup {files[i]}
                     ELSE saved_files,
                     answers)

\* parse_notam_files(html_files): each file that exists in current/ is decoded
\* and written to docs/<first letter>.geojson, over what was there; a file
\* that is not found is passed over
RECURSIVE parse_notam_files(_, _, _)
parse_notam_files(html_files, saved_files, geojson) ==
    IF html_files = <<>> THEN geojson
    ELSE parse_notam_files(Tail(html_files), saved_files,
            IF Head(html_files) \in saved_files
            THEN {g \in geojson : g[1] # Slice(Head(html_files), 0, 1)}
                 \cup {<<Slice(Head(html_files), 0, 1), Head(html_files)>>}
            ELSE geojson)

\* the variables the scraper leaves alone
libraryVars == <<s, src, pc, n, exc, geo, out, abbr, regex, once, twice, call, ret, wk>>

InitScraper ==
    /\ site \in Listings
    /\ stored = <<>>
    /\ current = {}
    /\ docs = [stamp |-> <<>>, geojson |-> {}]
    /\ s = ""
    /\ src = Plain("scraper", <<>>)
    /\ pc = "scraper"
    /\ n = EmptyNotam
    /\ exc = None
    /\ geo = [raised |-> {}, parts |-> 0]
    /\ out = None
    /\ abbr = ICAO_abbr
    /\ regex = None
    /\ once = None
    /\ twice = None
    /\ call = None
    /\ ret = None
    /\ wk = <<>>

\* main(): one run of the scraper. index_ok tells whether the index page
\* answers, answers which of the listed files the site delivers in this run.
Main ==
    /\ \E index_ok \in BOOLEAN, answers \in SUBSET {site[k] : k \in 1..Len(site)} :
          LET loop == DownloadAll(site, 1, stored, current, answers)
          IN IF ~index_ok THEN UNCHANGED scraperVars
             ELSE /\ site' = site
                  /\ current' = loop.current
                  /\ IF loop.returned \/ site = <<>>
                     THEN /\ stored' = stored
                          /\ docs' = IF loop.returned THEN docs
                                     ELSE [docs EXCEPT !.geojson =
                                              parse_notam_files(site, loop.current, @)]
                     ELSE /\ stored' = <<StampOf(site[1])>>
                          /\ docs' = [stamp |-> <<FormatStamp(StampOf(site[1]))>>,
                                      geojson |-> parse_notam_files(site, loop.current,
                                                                    docs.geojson)]
    /\ UNCHANGED libraryVars

\* the site publishes another listing
Publish ==
    /\ \E listing \in Listings \ {site} : site' = listing
    /\ UNCHANGED <<stored, current, docs>>
    /\ UNCHANGED libraryVars

NextScraper == Main \/ Publish

SpecScraper == InitScraper /\ [][NextScraper]_vars

\* ------------------------------------------------------------ claims

\* from_str has parsed s: n holds the clause fields
Parsed == pc \in {"geometry", "returned"}
TagsOf(tg) == [j \in 1..Len(tg.items) |-> tg.items[j].tag]
HasTag(tg, tag) == \E j \in 1..Len(tg.items) : tg.items[j].tag = tag
ItemOf(tg, tag) == tg.items[CHOOSE j \in 1..Len(tg.items) : tg.items[j].tag = tag]
Contains(x, k) == \E p \in 0..(Len(x) - Len(k)) : StartsAt(x, p, k)

\* C1: from_str rejects every input whose first character is not '(' or whose
\* last character is not ')' at the precheck, with the 'Corrupted NOTAM' error
\* and before the grammar is invoked.
C1_PrecheckRejects ==
    (pc # "call" /\ (At(s, 0) # "(" \/ At(s, Len(s) - 1) # ")"))
        => (pc = "raised" /\ exc[1].message = CorruptedMsg)

\* C2: every failure of the grammar reaches the caller as a NotamParseError
\* and as no other exception, and that error carries a line number, a column
\* number and a snippet computed from the offset of the failure.
C2_GrammarFailureIsNotamParseError ==
    (pc = "raised" /\ exc[1].message # CorruptedMsg)
        => /\ exc[1].type = "NotamParseError"
           /\ exc[1].original \in {"ParseError", "IncompleteParseError"}
                => /\ exc[1].line # None
                   /\ exc[1].column # None
                   /\ exc[1].snippet # None

\* the clause orders of the grammar: Q A B [C] [D] E [F G]
ValidLayouts ==
    {<<"Q", "A", "B">> \o c \o d \o <<"E">> \o fg :
        c \in {<<>>, <<"C">>}, d \in {<<>>, <<"D">>}, fg \in {<<>>, <<"F", "G">>}}
\* x holds a whitespace character, a letter A-G and ')': a clause marker
HoldsMarker(x) ==
    \E p \in 0..(Len(x) - 3) :
        At(x, p) \in Whitespace /\ At(x, p + 1) \in ClauseLabel /\ At(x, p + 2) = ")"
\* no text of the telegram holds a clause marker, so that the clauses of the
\* text are the clauses it was composed of
PlainTexts(tg) ==
    /\ ~HoldsMarker(tg.hdr)
    /\ \A j \in 1..Len(tg.items) : ~HoldsMarker(tg.items[j].txt)

\* C3: from_str accepts a telegram only if its clauses occur in the order
\* header, Q, A, B, optional C, optional D, E, optional F-and-G pair: a parsed
\* telegram whose texts hold no clause marker has its clauses in one of these
\* orders, and a telegram of the default clause texts is rejected only if its
\* clauses are in none of them.
C3_ClauseOrder ==
    /\ (Parsed /\ PlainTexts(src)) => TagsOf(src) \in ValidLayouts
    /\ (pc = "raised" /\ src.fam = "layout") => TagsOf(src) \notin ValidLayouts
C3_Witness ==
    /\ pc = "returned"
    /\ src.fam = "layout"
    /\ TagsOf(src) = <<"Q", "A", "B", "D", "E", "F", "G">>
    /\ n.valid_till = None
    /\ n.limit_upper = Some(DefaultText("G"))

\* C4: a telegram whose Q-clause has fewer than seven '/'-delimited fields
\* makes from_str fail with ParseQClauseError, which the caller can tell apart
\* from the generic grammar error.
C4_QClauseError ==
    (/\ pc = "raised"
     /\ src.fam = "q"
     /\ Len(Split(ItemOf(src, "Q").txt, "/", 0)) < MinQParts)
        => \/ exc[1].type = "ParseQClauseError"
           \/ exc[1].cause = "ParseQClauseError"

\* C5: for every 10-digit B-clause value YYMMDDHHMM that denotes a calendar
\* time, the telegram parses and valid_from is the UTC time of year 1900+YY
\* when YY > 80 and 2000+YY otherwise, with the month, day, hour and minute of
\* the following four digit pairs.
C5_ValidFrom ==
    (src.fam = "b" /\ pc \in {"geometry", "returned", "raised"})
        => LET v == ItemOf(src, "B").txt
               yy == Int2(v, 0)
               year == IF yy > 80 THEN 1900 + yy ELSE 2000 + yy
           IN IsCalendarTime(year, Int2(v, 2), Int2(v, 4), Int2(v, 6), Int2(v, 8))
                => /\ pc # "raised"
                   /\ n.valid_from = Some([cls |-> "datetime", year |-> year,
                          month |-> Int2(v, 2), day |-> Int2(v, 4), hour |-> Int2(v, 6),
                          minute |-> Int2(v, 8), tzinfo |-> "UTC"])
C5_Witness ==
    /\ pc = "returned"
    /\ src.fam = "b"
    /\ ItemOf(src, "B").txt = "8002292359"
    /\ n.valid_from[1].year = 2080

\* C6: after a successful parse valid_till is null exactly when the telegram
\* has no C-clause, is the maximum timestamp exactly when the C-clause is PERM,
\* is an estimated-wrapper around the decoded timestamp exactly when the
\* timestamp is followed by EST, and is the plain decoded timestamp otherwise.
C6_ValidTill ==
    Parsed
        => LET hasC == HasTag(src, "C")
               form == IF hasC THEN ItemOf(src, "C").form ELSE ""
               v == ItemOf(src, "C").txt
               stamp == DateTime(PivotYear(Int2(v, 0)), Int2(v, 2), Int2(v, 4),
                                 Int2(v, 6), Int2(v, 8), "UTC")
           IN /\ (n.valid_till = None) <=> ~hasC
              /\ (n.valid_till = Some(DateTimeMax)) <=> (form = "perm")
              /\ (n.valid_till # None /\ n.valid_till[1].cls = "EstimatedDateTime")
                    <=> (form = "est")
              /\ (form = "est") => (n.valid_till = Some(EstimatedDateTime(stamp)))
              /\ (form = "plain") => (n.valid_till = Some(stamp))
C6_Witness ==
    /\ pc = "returned"
    /\ HasTag(src, "C")
    /\ ItemOf(src, "C").txt = "2509101659\nEST "
    /\ n.valid_till[1].cls = "EstimatedDateTime"
    /\ n.valid_till[1].day = 10

\* the free-text clauses of the record: label, span and text
FreeClauses(nn) ==
    {c \in {<<"D", nn.indices_item_d, nn.schedule>>, <<"E", nn.indices_item_e, nn.body>>,
            <<"F", nn.indices_item_f, nn.limit_lower>>,
            <<"G", nn.indices_item_g, nn.limit_upper>>} : c[2] # None}
\* offset j of t holds the final ')' of the telegram, or a whitespace
\* character, a letter A-G and ')'
ClauseEnd(t, j) ==
    \/ At(t, j) = ")" /\ j = Len(t) - 1
    \/ At(t, j) \in {" ", "\n"} /\ At(t, j + 1) \in {"A", "B", "C", "D", "E", "F", "G"}
       /\ At(t, j + 2) = ")"
\* offset a of t follows the marker of clause lab at offset m and nothing but
\* spaces and newlines after it
FollowsMarker(t, lab, m, a) ==
    /\ Slice(t, m, m + 2) = lab \o ")"
    /\ \A i \in (m + 2)..(a - 1) : At(t, i) \in {" ", "\n"}

\* C7, as stated: the text captured for a D, E, F or G clause starts right
\* after the clause marker and is the shortest text from there that is
\* followed by the final ')' or by a whitespace character, a letter A-G and ')'.
C7_ShortestAfterMarker ==
    Parsed
        => \A c \in FreeClauses(n) :
            LET a == c[2][1][1]
                b == c[2][1][2]
            IN /\ c[3] = Some(Slice(s, a, b))
               /\ ClauseEnd(s, b)
               /\ FollowsMarker(s, c[1], a - 2, a)
               /\ \A j \in a..(b - 1) : ~ClauseEnd(s, j)

\* C7, amended: the text captured for a D, E, F or G clause starts after the
\* clause marker and all the spaces and newlines that follow it, and is the
\* shortest text from there that is followed by the final ')' or by a
\* whitespace character, a letter A-G and ')'.
C7_ShortestAfterMarkerAndSpace ==
    Parsed
        => \A c \in FreeClauses(n) :
            LET a == c[2][1][1]
                b == c[2][1][2]
            IN /\ c[3] = Some(Slice(s, a, b))
               /\ ClauseEnd(s, b)
               /\ At(s, a) \notin {" ", "\n"}
               /\ \E m \in 0..(a - 2) : FollowsMarker(s, c[1], m, a)
               /\ \A j \in a..(b - 1) : ~ClauseEnd(s, j)
C7_Witness ==
    /\ pc = "returned"
    /\ n.body = Some("RWY CLSD (6100 M) AMSL.")
    /\ src.fam = "text"
    /\ HasTag(src, "D")
    /\ ItemOf(src, "D").ws = " "
    /\ n.schedule = Some("E)M")

\* no abbreviation of the dictionary occurs in a D, E, F or G span
NoAbbreviation(nn, dict) ==
    \A c \in FreeClauses(nn) : decode_abbr(DictKeys(dict), dict, c[3][1]) = c[3][1]

\* C8: decoded() copies every character outside the D, E, F and G spans, the
\* final ')' included, so that decoded() equals full_text whenever no
\* abbreviation occurs inside those spans.
C8_DecodedCopiesGaps ==
    (out # None /\ NoAbbreviation(n, abbr)) => out = n.full_text

\* no expansion of the dictionary contains a key of the dictionary
NoKeyInExpansions(dict) ==
    \A i, j \in 1..Len(dict) : ~Contains(dict[i].exp, dict[j].key)
\* every key is a non-empty run of word characters
WordKeys(dict) ==
    \A i \in 1..Len(dict) :
        /\ dict[i].key # ""
        /\ \A p \in 0..(Len(dict[i].key) - 1) : At(dict[i].key, p) \in WordChar

\* C9, as stated: decode_abbr(decode_abbr(t)) = decode_abbr(t) for every text
\* and every dictionary whose expansions contain no dictionary key.
C9_Idempotent ==
    (twice # None /\ NoKeyInExpansions(abbr)) => twice = once

\* C9, amended: decode_abbr(decode_abbr(t)) = decode_abbr(t) for every text and
\* every dictionary whose keys are non-empty runs of word characters and whose
\* expansions contain no dictionary key.
C9_IdempotentWordKeys ==
    (twice # None /\ NoKeyInExpansions(abbr) /\ WordKeys(abbr)) => twice = once
C9_Witness ==
    /\ twice = Some("B B B")
    /\ s = "A B"
    /\ abbr = <<Entry("A", "B B")>>

\* the clause fields every telegram of the grammar has
Populated(nn) ==
    /\ nn.full_text # None /\ nn.notam_id # None /\ nn.notam_type # None
    /\ nn.fir # None /\ nn.notam_code # None /\ nn.traffic_type # None
    /\ nn.purpose # None /\ nn.scope # None /\ nn.location # None
    /\ nn.valid_from # None /\ nn.body # None
    /\ nn.indices_item_a # None /\ nn.indices_item_b # None /\ nn.indices_item_e # None

Ended(fn) == call # None /\ call.fn = fn /\ ret # None
\* the call of fn has returned
Returned(fn) == Ended(fn) /\ ~ret[1].raised

\* the degrees of latitude and of longitude, in seconds of arc
MaxLat == 90 * 3600
MaxLon == 180 * 3600
\* the token of the call is 4 to 7 digits and a hemisphere letter
DmsShaped ==
    LET t == call.args[1]
    IN /\ Len(t) - 1 \in 4..7
       /\ IsDigitStr(Slice(t, 0, Len(t) - 1))
       /\ At(t, Len(t) - 1) \in {"N", "S", "E", "W"}

\* C14: for every token of 4 to 7 digits and a hemisphere letter that
\* dms_token_to_deg accepts, the result is within 90 degrees of zero for N and
\* S, within 180 degrees for E and W, and negative exactly for S and W
C14_DmsInRange ==
    (Returned("dms_token_to_deg") /\ DmsShaped) =>
        LET hemi == At(call.args[1], Len(call.args[1]) - 1)
            deg == ret[1].val
        IN /\ hemi \in {"N", "S"} => (deg >= 0 - MaxLat /\ deg <= MaxLat)
           /\ hemi \in {"E", "W"} => (deg >= 0 - MaxLon /\ deg <= MaxLon)
           /\ (deg < 0) <=> (hemi \in {"S", "W"})

\* the points of the ring of the call that differ from the point before them
DistinctAfterDedup == Len(DedupAdjacent(call.args[1]))

\* C15: build_polygon raises whenever fewer than three points remain after
\* the removal of consecutive duplicates, and returns no polygon then
C15_InsufficientVerticesRaises ==
    (Ended("build_polygon") /\ DistinctAfterDedup < 3) => ret[1].raised

\* the ring build_sector returned, and its arc (the ring without the centre
\* at both ends)
SectorRing == ret[1].val
ArcLen == Len(SectorRing) - 2
ArcAt(k) == SectorRing[k + 1]
\* the bearing b degrees as a vertex of the arc writes it, over den
AtBearing(v, b) == v.r = 1 /\ v.num = (b * v.den) % (360 * v.den)

\* C16: the ring of build_sector starts and ends at the centre; its first arc
\* vertex lies at az_start, its last at az_end, and the k-th lies clockwise of
\* the first by (k-1) equal shares of (az_end - az_start) mod 360 degrees
C16_SectorSweepsClockwise ==
    Returned("build_sector") =>
        LET a == call.args[1]
            b == call.args[2]
            sweep == (b - a) % 360
        IN /\ SectorRing[1].r = 0 /\ SectorRing[Len(SectorRing)].r = 0
           /\ ArcLen >= 2
           /\ AtBearing(ArcAt(1), a)
           /\ AtBearing(ArcAt(ArcLen), b)
           /\ \A k \in 1..ArcLen :
                 /\ ArcAt(k).r = 1
                 /\ (ArcAt(k).num - ArcAt(1).num) % (360 * ArcAt(k).den)
                        = ((k - 1) * sweep) % (360 * ArcAt(k).den)
                 /\ (k - 1) * sweep <= sweep * (ArcLen - 1)
\* a sector from 300 to 60 degrees was built: its arc spans 120 degrees and
\* passes north
C16_Witness ==
    /\ Returned("build_sector")
    /\ call.args = <<300, 60>>
    /\ \E k \in 2..(ArcLen - 1) : AtBearing(ArcAt(k), 0)
    /\ ArcAt(ArcLen).num - ArcAt(1).num + 360 * ArcAt(1).den = 120 * ArcAt(1).den

\* the phrases of a clause-E text
PhrasesOf(text) == {text[l][k] : <<l, k>> \in {x \in (1..Len(text)) \X (1..4) : x[2] <= Len(text[x[1]])}}
\* the matches of the patterns for circles, sectors, ellipses and arcs in the
\* text that are well-formed: their distance and their coordinates parse
HealthyShapes(text) ==
    {ph \in PhrasesOf(text) :
        /\ ph.kind \in {"circle", "sector", "ellipse", "arc"}
        /\ ~ShapePart(ph, <<>>, <<>>, 1).raised}

\* C11: a failure on one match of a pattern inside build_parts_from_E discards
\* that match only: the call returns, and every well-formed match of the text
\* has its part in the result
C11_FailureDiscardsOnlyThatMatch ==
    Ended("build_parts_from_E") =>
        /\ ~ret[1].raised
        /\ \A ph \in HealthyShapes(call.args[1]) :
              \E i \in 1..Len(ret[1].val) :
                  ret[1].val[i].kind # "POLYGON" /\ ret[1].val[i].raw = ph

\* a line that is a numbered sub-area with an AREA chain
IsAreaLine(line) ==
    /\ Len(line) = 3
    /\ line[1].kind = "marker"
    /\ line[2].kind = "area"
    /\ line[3].kind = "coords"
AreaLines(text) == {l \in 1..Len(text) : IsAreaLine(text[l])}
\* the text lists two or more numbered AREA chains, each on its own line,
\* after at most a line of words
NumberedAreas(text) ==
    /\ Cardinality(AreaLines(text)) >= 2
    /\ \A l \in 1..Len(text) : l \in AreaLines(text) \/ (l = 1 /\ text[l] = <<Words>>)
\* the points of a sequence, as a set
PointSet(ring) == {ring[i] : i \in 1..Len(ring)}

\* C12: for a text of numbered AREA chains on separate lines build_geometry
\* returns a MultiPolygon of one polygon per sub-area, each with the
\* coordinates of its own sub-area only
C12_SubareasKeptApart ==
    (Ended("build_geometry") /\ NumberedAreas(call.args[1].text)) =>
        LET text == call.args[1].text
            lines == AreaLines(text)
            own(k) == PointSet(CoordsIn(<<text[Nth(lines, k)][3]>>))
        IN /\ ~ret[1].raised
           /\ ret[1].val # None
           /\ ret[1].val[1].geometry.type = "MultiPolygon"
           /\ Len(ret[1].val[1].geometry.geoms) = Cardinality(lines)
           /\ \A k \in 1..Cardinality(lines) :
                 PointSet(ret[1].val[1].geometry.geoms[k].ring) = own(k)

\* the descriptor of clause F or G of the block of the call: that of the
\* default text when the block has no such clause or an empty one
AltitudeOf(code, default) ==
    LET given == extract_field(call.args[1], code)
    IN IF given = None \/ given[1] = "" THEN default ELSE parse_alt_text(given[1])

\* C13: every part of a block carries the descriptors of the block's F and G
\* clauses; altitude_from is {type: SFC} without F, altitude_to the UNKNOWN
\* descriptor of 'UNL' without G
C13_PartsShareAltitudes ==
    (Returned("parse_notam_block") /\ ret[1].val # None) =>
        \A i \in 1..Len(ret[1].val[1].parts) :
            /\ ret[1].val[1].parts[i].altitude_from = AltitudeOf("F", [type |-> "SFC"])
            /\ ret[1].val[1].parts[i].altitude_to
                   = AltitudeOf("G", [type |-> "UNKNOWN", raw |-> "UNL"])
\* a block without F and G gave two parts, and one with both clauses too
C13_Witness ==
    /\ Returned("parse_notam_block")
    /\ ret[1].val # None
    /\ Len(ret[1].val[1].parts) >= 2
    /\ extract_field(call.args[1], "F") = None
    /\ extract_field(call.args[1], "G") = None
    /\ ret[1].val[1].parts[2].altitude_to.raw = "UNL"

\* what the three sources of build_geometry give for the record of the call
TextGeoms ==
    LET parts == build_parts_from_E(FlattenLines(call.args[1].text), <<>>, <<>>,
                                    call.strict)
    IN [i \in 1..Len(parts.val) |-> parts.val[i].geom]
\* the area of the record has lat and long tokens that dms_token_to_deg accepts
AreaUsable ==
    LET area == call.args[1].area
    IN /\ area # None
       /\ area[1].lat # None /\ area[1].long # None
       /\ ~dms_token_to_deg(area[1].lat[1]).raised
       /\ ~dms_token_to_deg(area[1].long[1]).raised
\* the airport table knows the first location of the record
AirportKnown ==
    LET locs == call.args[1].location
    IN /\ locs # <<>>
       /\ locs[1] \in DOMAIN Airports
       /\ Airports[locs[1]].lon # None /\ Airports[locs[1]].lat # None

\* C17: build_geometry takes the shapes of the text; without any, the area of
\* the record; without a usable area, the airport of the first location;
\* without that, it returns None
C17_SourcePriority ==
    Returned("build_geometry") =>
        LET out0 == ret[1].val
        IN IF TextGeoms # <<>>
           THEN out0 # None /\ out0[1].geometry = unary_union(TextGeoms)
                /\ out0[1].meta # None
           ELSE IF AreaUsable
           THEN out0 # None /\ out0[1].meta = None
                /\ out0[1].geometry.type \in {"Polygon", "Point"}
                /\ out0[1].geometry.at \in
                       { <<dms_token_to_deg(call.args[1].area[1].long[1]).val,
                           dms_token_to_deg(call.args[1].area[1].lat[1]).val>>,
                         << <<dms_token_to_deg(call.args[1].area[1].long[1]).val,
                              dms_token_to_deg(call.args[1].area[1].lat[1]).val>> >> }
           ELSE IF AirportKnown
           THEN out0 # None /\ out0[1].meta = None
                /\ out0[1].geometry =
                       [type |-> "Point",
                        at |-> <<Airports[call.args[1].location[1]].lon[1],
                                 Airports[call.args[1].location[1]].lat[1]>>]
           ELSE out0 = None
\* a record without shapes in its text, with an area whose tokens do not
\* parse and a known airport got the point of the airport
C17_Witness ==
    /\ Returned("build_geometry")
    /\ TextGeoms = <<>>
    /\ call.args[1].area # None
    /\ ~AreaUsable
    /\ AirportKnown
    /\ ret[1].val # None
    /\ ret[1].val[1].geometry.type = "Point"

\* the text of the record of the call lists ATS route segments
HasRoutes == \E ph \in PhrasesOf(call.args[1].text) : ph.kind = "route"

\* C18: for a text of ATS route segments build_geometry returns a LineString
\* or MultiLineString through the waypoints, with meta shape 'linestring'
C18_RouteSegmentsGiveLines ==
    (Ended("build_geometry") /\ HasRoutes) =>
        /\ ~ret[1].raised
        /\ ret[1].val # None
        /\ ret[1].val[1].geometry.type \in {"LineString", "MultiLineString"}
        /\ ret[1].val[1].meta = Some([shape |-> "linestring"])

\* the blocks of the file of the call, and what parse_notam_block makes of each
FileBlocks == split_notams(call.args[1])
BlockOutcome(i) == parse_notam_block(FileBlocks[i], call.strict)
\* the block raises; the block gives a feature with a part
BlockRaises(i) == BlockOutcome(i).raised
BlockYields(i) ==
    /\ ~BlockOutcome(i).raised
    /\ BlockOutcome(i).val # None
    /\ BlockOutcome(i).val[1].parts # <<>>
\* the features of the file that holds block i alone
Alone(i) == parse_notam_file_text(<<FileBlocks[i]>>, call.strict).features

\* C19: the features of a file are those of its blocks taken alone, in the
\* order of the blocks: one for a block that yields a part, none for a block
\* that raises or yields no part
C19_BlocksIndependent ==
    Returned("parse_notam_file_text") =>
        /\ ret[1].val.features = Concat([i \in 1..Len(FileBlocks) |-> Alone(i)])
        /\ \A i \in 1..Len(FileBlocks) :
              Len(Alone(i)) = IF BlockYields(i) THEN 1 ELSE 0
\* a file whose first block raises and whose later block yields a part gave
\* the feature of the later block
C19_Witness ==
    /\ Returned("parse_notam_file_text")
    /\ Len(FileBlocks) >= 2
    /\ BlockRaises(1)
    /\ BlockYields(Len(FileBlocks))
    /\ Len(ret[1].val.features) >= 1
    /\ ret[1].val.features[Len(ret[1].val.features)].properties.qid
           = BlockOutcome(Len(FileBlocks)).val[1].qid

\* what decode_abbr returns for the text of worker w when it runs alone
AloneResult(w) == decode_abbr(DictKeys(abbr), abbr, wk[w].txt)

\* C20: under every interleaving of the workers, the lazy construction of the
\* shared pattern included, each worker's decode_abbr returns what it returns
\* when it runs alone
C20_ConcurrentDecodeAsAlone ==
    \A w \in DOMAIN wk :
        wk[w].pc = "done" => wk[w].result = Some(AloneResult(w))
\* two workers both found no pattern, both compiled and stored one, and both
\* have returned; one of them replaced an abbreviation
C20_Witness ==
    /\ wk # <<>>
    /\ \A w \in DOMAIN wk : wk[w].pc = "done" /\ wk[w].pattern # None
    /\ \E w \in DOMAIN wk : wk[w].result # Some(wk[w].txt)

\* ------------------------------------------------------------ claims of the spans

\* the clauses of the record that have a span: label, span, and the text of
\* the clause (None for B and C, whose value is a time)
SpannedClauses(nn) ==
    <<<<"B", nn.indices_item_b, None>>, <<"C", nn.indices_item_c, None>>,
      <<"D", nn.indices_item_d, nn.schedule>>, <<"E", nn.indices_item_e, nn.body>>,
      <<"F", nn.indices_item_f, nn.limit_lower>>, <<"G", nn.indices_item_g, nn.limit_upper>>>>
\* the clauses among them that are present, in clause order
PresentClauses(nn) == SelectSeq(SpannedClauses(nn), LAMBDA c : c[2] # None)
\* x is the text of a time: ten digits
TimeText(x) == Len(x) = 10 /\ IsDigitStr(x)
\* x is what the content of a C clause matches: PERM, or a time, white space
\* and EST
TillText(x) ==
    \/ x = "PERM"
    \/ TimeText(Slice(x, 0, 10)) /\ Strip(Slice(x, 10, Len(x))) \in {"", "EST"}

\* C21: after every successful parse the span (start, end) of each clause B,
\* C, D, E, F, G that is present lies within full_text, full_text[start:end]
\* is the text captured for the clause (body for E, schedule for D,
\* limit_lower for F, limit_upper for G, the time for B and C), the spans
\* follow each other in clause order without overlap, and the span of an
\* absent clause is None.
C21_ClauseSpans ==
    Parsed =>
        LET ft == n.full_text[1]
            present == PresentClauses(n)
        IN /\ \A i \in 1..Len(present) :
                LET lab == present[i][1]
                    a == present[i][2][1][1]
                    b == present[i][2][1][2]
                IN /\ 0 <= a /\ a <= b /\ b <= Len(ft)
                   /\ \E m \in 0..(a - 2) : FollowsMarker(ft, lab, m, a)
                   /\ lab = "B" => TimeText(Slice(ft, a, b))
                   /\ lab = "C" => TillText(Slice(ft, a, b))
                   /\ lab \in {"D", "E", "F", "G"} => present[i][3] = Some(Slice(ft, a, b))
                   /\ i < Len(present) => b <= present[i + 1][2][1][1]
           /\ n.indices_item_b # None /\ n.indices_item_e # None
           /\ (n.indices_item_c = None) <=> (n.valid_till = None)
           /\ \A c \in {SpannedClauses(n)[k] : k \in 3..6} : (c[2] = None) <=> (c[3] = None)
           /\ PlainTexts(src) =>
                \A k \in 1..6 : (SpannedClauses(n)[k][2] # None)
                                    <=> HasTag(src, SpannedClauses(n)[k][1])
C21_Witness ==
    /\ pc = "returned"
    /\ src.fam = "c"
    /\ TagsOf(src) = <<"Q", "A", "B", "C", "D", "E", "F", "G">>
    /\ ItemOf(src, "C").txt = "2509101659 EST"
    /\ Len(PresentClauses(n)) = 6
    /\ n.indices_item_c # None
    /\ n.indices_item_g[1][2] = Len(s) - 1

\* ------------------------------------------------------------ claims of the cascade

\* the sub-areas of the text of the call, and the parts of the result that
\* carry the index i
SubareasOfCall == parse_subareas(call.args[1])
PartsOf(i) == SelectSeq(ret[1].val, LAMBDA p : p.index = i)
KindsOf(i) == [k \in 1..Len(PartsOf(i)) |-> PartsOf(i)[k].kind]
\* the coordinate texts of a sequence of phrases, in the order of the text
LinksIn(phrases) ==
    Concat([k \in 1..Len(phrases) |->
               IF phrases[k].kind = "route" THEN <<>> ELSE phrases[k].pts])
\* the sub-area holds no keyword of a shape
NoShapeKeyword(sub) ==
    \A k \in 1..Len(Concat(sub)) :
        Concat(sub)[k].kind \notin {"circle", "sector", "ellipse", "arc", "line", "area"}
\* the coordinate texts that follow the first keyword AREA of the sub-area
AfterArea(sub) ==
    LET phrases == Concat(sub)
        at == {k \in 1..Len(phrases) : phrases[k].kind = "area"}
    IN IF at = {} THEN <<>>
       ELSE LinksIn(SubSeq(phrases, MinOf(at) + 1, Len(phrases)))

NumberedLines ==
    {l \in 1..Len(call.args[1]) :
        call.args[1][l] # <<>> /\ call.args[1][l][1].kind = "marker"}
\* the part p was made of text of the sub-area sub: its match is a phrase of
\* the sub-area, and a polygon has its coordinates there
MadeOf(p, sub) ==
    IF p.kind = "POLYGON" THEN Len(LinksIn(Concat(sub))) >= MinVertices
    ELSE \E k \in 1..Len(Concat(sub)) : Concat(sub)[k] = p.raw

\* C23: every part build_parts_from_E returns carries the 1-based ordinal of
\* the numbered sub-area it was made of, an index between 1 and the number of
\* sub-areas; the indices never decrease along the list; and every index is 1
\* when the text has no numbered items
C23_SubareaIndex ==
    Returned("build_parts_from_E") =>
        LET parts == ret[1].val
        IN /\ \A k \in 1..Len(parts) :
                  /\ parts[k].index \in 1..Len(SubareasOfCall)
                  /\ MadeOf(parts[k], SubareasOfCall[parts[k].index])
                  /\ NumberedLines # {} =>
                         call.args[1][Nth(NumberedLines, parts[k].index)][1].kind = "marker"
                  /\ NumberedLines = {} => parts[k].index = 1
           /\ \A k \in 1..Len(parts) - 1 : parts[k].index <= parts[k + 1].index
C23_Witness ==
    /\ Returned("build_parts_from_E")
    /\ Cardinality(NumberedLines) = 2
    /\ Len(ret[1].val) = 2
    /\ ret[1].val[1].index = 1 /\ ret[1].val[1].kind = "CIRCLE"
    /\ ret[1].val[2].index = 2 /\ ret[1].val[2].kind = "SECTOR"

\* the points of a sequence
RangeOf(seq) == {seq[k] : k \in 1..Len(seq)}
\* the points the matches of arcs and circles of sub-area i consumed, and the
\* vertices of its POLYGON parts
ConsumedOf(i) ==
    UNION {RangeOf(PartsOf(i)[k].geom.at) :
              k \in {j \in 1..Len(PartsOf(i)) : PartsOf(i)[j].kind \in {"ARC", "CIRCLE"}}}
VerticesOf(i) ==
    UNION {RangeOf(PartsOf(i)[k].geom.ring) :
              k \in {j \in 1..Len(PartsOf(i)) : PartsOf(i)[j].kind = "POLYGON"}}

\* C24: in the parts build_parts_from_E returns, a coordinate that an arc
\* match (start, centre, end) or a circle match (centre) of a sub-area
\* consumed is never a vertex of a POLYGON part of the same sub-area
C24_DisjointSpans ==
    Returned("build_parts_from_E") =>
        \A i \in 1..Len(SubareasOfCall) : ConsumedOf(i) \cap VerticesOf(i) = {}

\* the ring goes all the way round its centre: each quarter of the turn holds a
\* vertex at the distance of the radius
FullCircle(ring) ==
    \A q \in 0..3 :
        \E k \in 1..Len(ring) :
            /\ ring[k].r = 1
            /\ ring[k].num >= q * (FullTurn \div 4) * ring[k].den
            /\ ring[k].num < (q + 1) * (FullTurn \div 4) * ring[k].den
\* the SECTOR parts of the result whose match has two bearings equal modulo 360
ZeroSpanSectors ==
    SelectSeq(ret[1].val,
              LAMBDA p : /\ p.kind = "SECTOR"
                         /\ (p.raw.az[2] - p.raw.az[1]) % FullTurn = 0)

\* C25: for two bearings that are equal modulo 360 build_sector returns a
\* full circle of the radius around the centre, and so does every part the
\* sector recognizer of build_parts_from_E makes of such a match
C25_ZeroSpanFullCircle ==
    /\ (Returned("build_sector") /\ (call.args[2] - call.args[1]) % FullTurn = 0)
           => FullCircle(ret[1].val)
    /\ Returned("build_parts_from_E") =>
           \A k \in 1..Len(ZeroSpanSectors) : FullCircle(ZeroSpanSectors[k].geom.ring)

\* ------------------------------------------------------------ claims of the tokens

\* the token of the call is five digits and a hemisphere letter
FiveDigitToken ==
    /\ Ended("dms_token_to_deg")
    /\ Len(call.args[1]) = 6
    /\ IsDigitStr(SubSeq(call.args[1], 1, 5))
    /\ SubSeq(call.args[1], 6, 6) \in {"N", "S", "E", "W"}
\* the angle of the result without its sign, in seconds of arc
Magnitude(v) == IF v < 0 THEN 0 - v ELSE v

\* C26: dms_token_to_deg of scripts/geo.py reads a token of five digits and a
\* hemisphere letter as three digits of degrees and two digits of minutes,
\* with no seconds, negative for S and W
C26_FiveDigits ==
    FiveDigitToken =>
        /\ ~ret[1].raised
        /\ Magnitude(ret[1].val)
              = ParseNat(SubSeq(call.args[1], 1, 3)) * 3600
                + ParseNat(SubSeq(call.args[1], 4, 5)) * 60
        /\ (ret[1].val < 0) => SubSeq(call.args[1], 6, 6) \in {"S", "W"}
        /\ (ret[1].val > 0) => SubSeq(call.args[1], 6, 6) \in {"N", "E"}
C26_Witness ==
    /\ FiveDigitToken
    /\ call.args[1] = "03012W"
    /\ ret[1].val = 0 - (30 * 3600 + 12 * 60)
\* C26 as stated: two digits of degrees, two of minutes, and the last digit as
\* tens of seconds
C26_TensOfSeconds ==
    FiveDigitToken =>
        /\ ~ret[1].raised
        /\ Magnitude(ret[1].val)
              = ParseNat(SubSeq(call.args[1], 1, 2)) * 3600
                + ParseNat(SubSeq(call.args[1], 3, 4)) * 60
                + ParseNat(SubSeq(call.args[1], 5, 5)) * 10

\* the text of the call without spaces and in upper case
Squeezed == ReplaceChars(ToUpper(Strip(call.args[1])), {" "}, "")
\* x is a decimal number followed by the unit and nothing else
NumberAnd(x, unit) ==
    /\ Len(x) > Len(unit)
    /\ Slice(x, Len(x) - Len(unit), Len(x)) = unit
    /\ DecimalEnd(Slice(x, 0, Len(x) - Len(unit)), 0) = Len(x) - Len(unit)
\* the metres of a unit
MetresPer(unit) == CASE unit = "KM" -> 1000 [] unit = "NM" -> 1852 [] OTHER -> 1

\* C27: m_from_text returns the number times 1000 for KM, times 1852 for NM
\* and times 1 for M, and raises for every text that, without spaces and in
\* upper case, is not a decimal number followed by one of these units and
\* nothing else
C27_Distance ==
    Ended("m_from_text") =>
        /\ \A unit \in {"KM", "NM", "M"} :
               NumberAnd(Squeezed, unit) =>
                   /\ ~ret[1].raised
                   /\ ret[1].val.mm
                         = DecimalMilli(Slice(Squeezed, 0, Len(Squeezed) - Len(unit)))
                           * MetresPer(unit)
        /\ (\A unit \in {"KM", "NM", "M"} : ~NumberAnd(Squeezed, unit)) => ret[1].raised

\* ------------------------------------------------------------ claims of _geo.py

\* the text of the call is "... WI <r><unit> RADIUS CENTERED PSNS" and, below
\* it, lines of one position each
PsnsForm ==
    /\ Ended("_geo.build_parts_from_E")
    /\ Len(call.args[1]) >= 2
    /\ call.args[1][1] # <<>>
    /\ call.args[1][1][Len(call.args[1][1])].kind = "psns"
    /\ ~RadiusOf(call.args[1][1][Len(call.args[1][1])].dist).raised
    /\ \A k \in 1..(Len(call.args[1][1]) - 1) : call.args[1][1][k].kind = "words"
    /\ \A l \in 2..Len(call.args[1]) :
           Len(call.args[1][l]) = 1 /\ call.args[1][l][1].kind = "position"

\* C28: of a text "WI <r><unit> RADIUS CENTERED PSNS" followed by N lines of
\* one hemisphere-first position each, the cascade of _geo.py makes exactly N
\* parts, all circles: the k-th around the k-th position, none twice, each of
\* the stated radius
C28_OneCirclePerPosition ==
    PsnsForm =>
        /\ ~ret[1].raised
        /\ Len(ret[1].val) = Len(call.args[1]) - 1
        /\ \A k \in 1..Len(ret[1].val) :
               /\ ret[1].val[k].kind = "CIRCLE"
               /\ ret[1].val[k].geom.at
                     = <<lib_parse_latlon_pair(call.args[1][k + 1][1].pts[1]).val>>
               /\ ret[1].val[k].geom.size.mm
                     = RadiusOf(call.args[1][1][Len(call.args[1][1])].dist).val.mm

\* the kinds of the parts of an outcome, <<"raised">> for a call that raises
KindSeq(outcome) ==
    IF outcome.raised THEN <<"raised">>
    ELSE [k \in 1..Len(outcome.val) |-> outcome.val[k].kind]

\* C29: for every clause-E text the cascade of _geo.py (Notam.from_str) and
\* the cascade of scripts/geo.py (build_geometry) recognise the same sequence
\* of part kinds
C29_SameKinds ==
    /\ Ended("build_parts_from_E") =>
           KindSeq(ret[1])
             = KindSeq(lib_build_parts_from_E(call.args[1], <<>>, <<>>, call.strict))
    /\ Ended("_geo.build_parts_from_E") =>
           KindSeq(ret[1])
             = KindSeq(build_parts_from_E(call.args[1], <<>>, <<>>, call.strict))

\* ------------------------------------------------------------ claims of the scraper

\* C30: a run of main stores the time of issue of the listing in
\* current/.scrape_timestamp only when every file of the listing is saved in
\* current/, so that the check "already downloaded this timestamp" of a later
\* run never passes over a file whose download failed
C30_StampAfterAll ==
    [][stored' # stored => \A k \in 1..Len(site) : site[k] \in current']_vars

====
